---- MODULE Spec2Model ----
(***************************************************************************)
(* NPB CG kernel: matrix generation (makea / sprnvc / vecset / sparse) and *)
(* the OpenMP conjugate-gradient solver (conj_grad) with its driver loop.  *)
(*                                                                         *)
(* Real-valued quantities live on an integer grid.  A draw of the random   *)
(* stream is an integer x in 0..RandDen-1 standing for x/RandDen in [0,1). *)
(* Elements of aelt are in units of 1/RandDen, elements of a in units of   *)
(* 1/RandDen^2.  rcond is an exact na-th power, so ratio = pow(rcond, 1/n) *)
(* is exact on the grid.                                                   *)
(***************************************************************************)
EXTENDS Integers, Sequences, FiniteSets, TLC

\* ------------------------------------------------------------------ bounds
na == 2
nonzer == 1
RandDen == 4
\* largest order n that sprnvc is called with on its own
MaxSprnvcN == 3
\* number of OpenMP threads of the parallel region
num_threads == 2
\* outer iterations of the timed phase
niter == 2
\* values of the stream that are drawn as vecelt (0.25 and 0.75 for RandDen = 4)
VecElts == {1, 3}

\* ------------------------------------------------------- program constants
shift == 10
cgitmax == 25

RECURSIVE Pow(_, _)
Pow(b, e) == IF e = 0 THEN 1 ELSE b * Pow(b, e - 1)

rcond == Pow(2, na)

\* pow(rcond, 1.0 / n)
ratio == CHOOSE rt \in 1..rcond : Pow(rt, na) = rcond

\* the value 0.5 that makea passes to vecset
Half == RandDen \div 2

\* a real constant c as an element of a
Grid(c) == c * RandDen * RandDen

\* NZ = na * (nonzer + 1) * (nonzer + 1)
NZ == na * (nonzer + 1) * (nonzer + 1)

RECURSIVE Nn1Loop(_, _)
Nn1Loop(m, n) == IF 2 * m < n THEN Nn1Loop(2 * m, n) ELSE 2 * m

\* nn1 = 1; do { nn1 = 2 * nn1; } while (nn1 < n);
Nn1(n) == Nn1Loop(1, n)

icnvrt(xr, ipwr2) == (ipwr2 * xr) \div RandDen

RECURSIVE SumOver(_, _)
SumOver(f, S) ==
  IF S = {} THEN 0
  ELSE LET e == CHOOSE e \in S : TRUE IN f[e] + SumOver(f, S \ {e})

Min(S) == CHOOSE m \in S : \A o \in S : m <= o

\* randlc is checked with halves of HalfBits bits instead of 23
HalfBits == 3
\* the longest elapsed time of a run, in microseconds
MaxElapsed == 7
\* the producer-consumer benchmarks: threads and items per producer
MaxProducers == 2
MaxConsumers == 2
MaxItems == 2

\* the constructions of a matrix that are compared
MaxBuilt == 3
\* the echo server: the connection limit and the clients that connect
max_connections == 2
num_clients == 3

\* ------------------------------------------------------------------- state
VARIABLES
  stage,            \* position of the sequential part of main
  nz,               \* capacity of a and colidx
  spn, spnz,        \* the arguments n and nz of sprnvc
  iouter, nzv, v, iv, vecelt, vecloc,     \* makea / sprnvc
  arow, acol, aelt,                       \* the row patterns
  a, colidx, rowstr, nzloc,               \* the matrix under assembly
  i, nza, nzrow, size                     \* loop state of pass 2 of sparse

genvars == <<spn, spnz, iouter, nzv, v, iv, vecelt, vecloc>>
patvars == <<arow, acol, aelt>>
matvars == <<a, colidx, rowstr, nzloc>>
loopvars == <<i, nza, nzrow, size>>

\* the parallel region: driver loop and conj_grad
VARIABLES
  impl,             \* "omp" (NPB-OMP/CG/cg.cpp) or "port" (master_t_parallel_c/CG/cg.cpp)
  pc, mode,         \* per thread: the construct it is at; "run", "body" (inside a single) or "wait" (at a barrier)
  cgit, it,         \* per thread: the private loop counters
  alpha, beta,      \* per thread: the operands alpha and beta were computed from
  seen, claimed,    \* single constructs met per thread / already claimed
  x, z, p, q, r,    \* the five vectors
  d, rho, rho0, sum, rnorm,               \* statics of conj_grad
  norm_temp1, norm_temp2, zeta,           \* driver scalars
  acc,              \* per vector element: threads that read / wrote it since the last barrier
  calls,            \* per thread: the number of calls of conj_grad it has made
  tbench            \* the timer T_BENCH

\* the process: main and its arguments
VARIABLES
  argv,             \* the arguments after the program name
  mpc,              \* position of main
  nthreads,         \* the thread count the run uses
  status,           \* the exit status, -1 while the process runs
  mout,             \* the messages printed
  mlog,             \* the phases main has performed, in order
  verified          \* the outcome of the verification

\* the random stream: randlc and its file statics
VARIABLES
  tran,             \* the state *x of the stream, an integer below 2^(2 * HalfBits)
  amult,            \* the multiplier a
  rout              \* the value randlc returned last, in units of 2^-(2 * HalfBits); -1 before the first call

rngvars == <<tran, amult, rout>>

\* the report at the end of main
VARIABLES
  class_npb,        \* the problem class of the run
  elapsed,          \* t = timer_read(T_BENCH), in microseconds
  mflops            \* the throughput reported, count * per / den; count = -1 before it is computed

repvars == <<class_npb, elapsed, mflops>>

\* the echo server
VARIABLES
  srv,              \* "threaded" (EchoServer) or "async" (AsyncEchoServer)
  conn,             \* per client: where its connection is
  current_connections                     \* the atomic counter of the server

echovars == <<srv, conn, current_connections>>

\* matrices generated one after another, from the stream of randlc
VARIABLES
  seed,             \* the initial value of tran
  built,            \* the row patterns of the constructions completed, in order
  nth               \* the constructions begun in the running process

cmpvars == <<seed, built, nth>>

\* the sizes of the matrix buffers
VARIABLES
  sizes             \* NZ, NAZ and the slot total, each as computed in its type

sizevars == <<sizes>>

\* the producer-consumer benchmarks
VARIABLES
  pcmode,               \* "channel" or "queue"
  num_producers, num_consumers, items_per_producer,
  queue,                \* queue_ of the Channel or the ThreadSafeQueue
  produced, consumed,   \* the counters of ConcurrencyMetrics
  producers_done,
  prod,                 \* per producer: its position and its j
  cons,                 \* per consumer: its position, local_consumed, the items it held
  bench                 \* the position of the thread that runs the benchmark

pcvars == <<pcmode, num_producers, num_consumers, items_per_producer, queue,
            produced, consumed, producers_done, prod, cons, bench>>

\* the state outside the CG run
libvars == <<rngvars, repvars, echovars, cmpvars, sizevars, pcvars>>

thrvars == <<pc, mode, cgit, it, alpha, beta, seen, claimed>>
vecvars == <<x, z, p, q, r>>
redvars == <<d, rho, rho0, sum, rnorm>>
drvvars == <<norm_temp1, norm_temp2, zeta>>
mainvars == <<argv, mpc, nthreads, status, mout, mlog, verified>>
cgvars == <<impl, thrvars, vecvars, redvars, drvvars, acc, calls, tbench, mainvars, libvars>>

makeavars == <<stage, nz, genvars, patvars, matvars, loopvars>>

\* the state of the CG run
npbvars == <<makeavars, impl, thrvars, vecvars, redvars, drvvars, acc, calls, tbench, mainvars>>

vars == <<stage, nz, genvars, patvars, matvars, loopvars, cgvars>>

Threads == 0..(num_threads - 1)
VecNames == {"x", "z", "p", "q", "r"}
\* x, z, p, q, r have na + 2 elements
VecIdx == 0..(na + 1)

\* contents of a vector element.  p, z, r: the number of updates applied by
\* the running conj_grad call; q: the iteration that wrote it and the
\* versions of p it was computed from
Uninit == -3
AzRow == -2
Zeroed == -1
QZeroed == [it |-> Zeroed, ps |-> {}]

\* contents of an element of x: ones, or the z of the k-th call of conj_grad
\* of the run, normalised
XUninit == [v |-> "uninit", of |-> 0]
XZero == [v |-> "zero", of |-> 0]
\* x when the fill with ones is left out
OnesSkipped == XZero

Ones == [v |-> "ones", of |-> 0]
Norm(k) == [v |-> "norm", of |-> k]

\* norm_temp1: per j the products x[j] * z[j] added to it, by their operands
\* (ProductStale: a product formed with the x the phase started from)
NoProducts == [j \in 0..(na - 1) |-> <<>>]

\* zeta = 0.0, and zeta = shift + 1 / norm_temp1 of outer iteration it
ZetaZero == [it |-> 0, by |-> NoProducts]

\* the random stream as the statics are initialised, before the first draw
RngIdle ==
  /\ tran = 0
  /\ amult = 0
  /\ rout = -1

NoMflops == [count |-> -1, per |-> 0, den |-> 1]

\* no report is being made
RepIdle ==
  /\ class_npb = "S"
  /\ elapsed = 0
  /\ mflops = NoMflops

Clients == 1..num_clients

\* the echo server is not running
EchoIdle ==
  /\ srv = "threaded"
  /\ conn = [c \in Clients |-> "new"]
  /\ current_connections = 0

\* no matrix has been constructed
CmpIdle ==
  /\ seed = 0
  /\ built = <<>>
  /\ nth = 0

\* a size that has not been computed
NoSize == [ok |-> TRUE, val |-> <<>>]

\* no buffer has been sized
SizeIdle == sizes = [nz |-> NoSize, naz |-> NoSize, slots |-> NoSize]

\* no producer-consumer benchmark runs
PcIdle ==
  /\ pcmode = "channel"
  /\ num_producers = 0
  /\ num_consumers = 0
  /\ items_per_producer = 0
  /\ queue = <<>>
  /\ produced = 0
  /\ consumed = 0
  /\ producers_done = FALSE
  /\ prod = <<>>
  /\ cons = <<>>
  /\ bench = "idle"

\* no component outside the CG run is active
LibIdle == RngIdle /\ RepIdle /\ EchoIdle /\ CmpIdle /\ SizeIdle /\ PcIdle

\* main is not modelled in this specification
MainIdle ==
  /\ argv = <<>>
  /\ mpc = "idle"
  /\ nthreads = num_threads
  /\ status = -1
  /\ mout = {}
  /\ mlog = <<>>
  /\ verified = FALSE

\* a reduction scalar: how often the term of each j has been added to it
NoTerms == [j \in 0..(na - 1) |-> 0]
AllTerms == [j \in 0..(na - 1) |-> 1]
NoAccess == [e \in VecNames \X VecIdx |-> [rd |-> {}, wr |-> {}]]

\* the parallel region has not been entered
RegionIdle ==
  /\ pc = [t \in Threads |-> "idle"]
  /\ mode = [t \in Threads |-> "run"]
  /\ cgit = [t \in Threads |-> 0]
  /\ it = [t \in Threads |-> 0]
  /\ alpha = [t \in Threads |-> <<>>]
  /\ beta = [t \in Threads |-> <<>>]
  /\ seen = [t \in Threads |-> 0]
  /\ claimed = 0
  /\ x = [j \in VecIdx |-> XUninit]
  /\ z = [j \in VecIdx |-> Uninit]
  /\ p = [j \in VecIdx |-> Uninit]
  /\ q = [j \in VecIdx |-> QZeroed]
  /\ r = [j \in VecIdx |-> Uninit]
  /\ d = NoTerms
  /\ rho = NoTerms
  /\ rho0 = NoTerms
  /\ sum = NoTerms
  /\ rnorm = NoTerms
  /\ norm_temp1 = NoProducts
  /\ norm_temp2 = NoTerms
  /\ zeta = ZetaZero
  /\ acc = NoAccess
  /\ calls = [t \in Threads |-> 0]
  /\ tbench = "clear"

CgIdle ==
  /\ impl = "omp"
  /\ RegionIdle
  /\ MainIdle
  /\ LibIdle

Rows == 0..(na - 1)
PatIdx == 0..nonzer

ZeroVec == [m \in PatIdx |-> 0]

\* makea has not started
MakeaFresh ==
  /\ spn = na
  /\ spnz = nonzer
  /\ iouter = 0
  /\ nzv = 0
  /\ v = ZeroVec
  /\ iv = ZeroVec
  /\ vecelt = 0
  /\ vecloc = 0
  /\ arow = [rw \in Rows |-> 0]
  /\ acol = [rw \in Rows |-> ZeroVec]
  /\ aelt = [rw \in Rows |-> ZeroVec]
  /\ a = [k \in 0..(nz - 1) |-> 0]
  /\ colidx = [k \in 0..(nz - 1) |-> 0]
  /\ rowstr = [j \in 0..na |-> 0]
  /\ nzloc = [j \in Rows |-> 0]
  /\ i = 0
  /\ nza = 0
  /\ nzrow = 0
  /\ size = 1

InitMakea ==
  /\ stage = "sprnvc"
  /\ MakeaFresh
  /\ CgIdle

Init ==
  /\ nz = NZ
  /\ InitMakea

\* ------------------------------------------------------------------ sprnvc
\* the index a draw converts to: i = icnvrt(vecloc, nn1) + 1
DrawIndex(loc, n) == icnvrt(loc, Nn1(n)) + 1

\* a scan that compares with the last accepted index only
was_gen_last(ivec, cnt, idx) == cnt > 0 /\ ivec[cnt - 1] = idx

\* was_gen: the linear scan of iv[0 .. nzv-1]
was_gen(ivec, cnt, idx) == \E ii \in 0..(cnt - 1) : ivec[ii] = idx

\* a scan that lets an index through that was generated before
RejectedOutOfRange(ivec, cnt, idx, n) == idx > n

\* a draw is rejected when it is out of range or already generated
Rejected(ivec, cnt, idx, n) == idx > n \/ was_gen(ivec, cnt, idx)

\* the values vecloc takes
Locs == 0..(RandDen - 1)

\* one iteration of while (nzv < nz) in sprnvc in which vecloc is loc
SprnvcDrawLoc(loc) ==
  /\ stage = "sprnvc"
  /\ nzv < spnz
  /\ \E e \in VecElts :
       /\ vecelt' = e
       /\ vecloc' = loc
       /\ IF Rejected(iv, nzv, DrawIndex(loc, spn), spn)
          THEN UNCHANGED <<v, iv, nzv>>
          ELSE /\ v' = [v EXCEPT ![nzv] = e]
               /\ iv' = [iv EXCEPT ![nzv] = DrawIndex(loc, spn)]
               /\ nzv' = nzv + 1
  /\ UNCHANGED <<stage, nz, spn, spnz, iouter, patvars, matvars, loopvars, cgvars>>

\* one iteration of while (nzv < nz) in sprnvc
SprnvcDraw == \E loc \in Locs : SprnvcDrawLoc(loc)

\* while (nzv < nz) is left: sprnvc returns to its caller
SprnvcReturn ==
  /\ stage = "sprnvc"
  /\ nzv >= spnz
  /\ stage' = "returned"
  /\ UNCHANGED <<nz, genvars, patvars, matvars, loopvars, cgvars>>

\* ------------------------------------------------------------------ vecset
\* a vecset that appends without looking for idx
VecSetAppend(vec, ivec, cnt, idx, val) ==
  [v |-> [vec EXCEPT ![cnt] = val],
   iv |-> [ivec EXCEPT ![cnt] = idx],
   nzv |-> cnt + 1]

\* vector_set of the port: std::find, the first element equal to idx
VectorSet(vec, ivec, cnt, idx, val) ==
  IF \E k \in 0..(cnt - 1) : ivec[k] = idx
  THEN LET index == Min({k \in 0..(cnt - 1) : ivec[k] = idx}) IN
         [v |-> [vec EXCEPT ![index] = val],
          iv |-> ivec,
          nzv |-> cnt]
  ELSE [v |-> [vec EXCEPT ![cnt] = val],
        iv |-> [ivec EXCEPT ![cnt] = idx],
        nzv |-> cnt + 1]

\* vecset of NPB-OMP: the loop over k < *nzv
VecSet(vec, ivec, cnt, idx, val) ==
  IF \E k \in 0..(cnt - 1) : ivec[k] = idx
  THEN [v |-> [k \in DOMAIN vec |->
                 IF k < cnt /\ ivec[k] = idx THEN val ELSE vec[k]],
        iv |-> ivec,
        nzv |-> cnt]
  ELSE [v |-> [vec EXCEPT ![cnt] = val],
        iv |-> [ivec EXCEPT ![cnt] = idx],
        nzv |-> cnt + 1]

\* the rest of the body of the iouter loop of makea, after sprnvc returned
MakeaRow ==
  /\ stage = "sprnvc"
  /\ nzv >= spnz
  /\ LET s == VecSet(v, iv, nzv, iouter + 1, Half) IN
       /\ arow' = [arow EXCEPT ![iouter] = s.nzv]
       /\ acol' = [acol EXCEPT ![iouter] =
                     [m \in PatIdx |-> IF m < s.nzv THEN s.iv[m] - 1 ELSE @[m]]]
       /\ aelt' = [aelt EXCEPT ![iouter] =
                     [m \in PatIdx |-> IF m < s.nzv THEN s.v[m] ELSE @[m]]]
  /\ iouter' = iouter + 1
  /\ nzv' = 0
  /\ v' = ZeroVec
  /\ iv' = ZeroVec
  /\ vecelt' = 0
  /\ vecloc' = 0
  /\ stage' = IF iouter + 1 < na THEN "sprnvc" ELSE "sparse"
  /\ UNCHANGED <<nz, spn, spnz, matvars, loopvars, cgvars>>

\* ------------------------------------------------------------------ sparse
\* the (i, nza) pairs the loops of sparse visit
Triples == {t \in Rows \X PatIdx : t[2] < arow[t[1]]}

\* a count of one slot per element of a pattern in column j
RowCountElements(j) == Cardinality({t \in Triples : acol[t[1]][t[2]] = j})

\* pass 1: rowstr[j + 1] receives arow[i] for every element of pattern i in column j
RowCount(j) ==
  SumOver([t \in Triples |-> arow[t[1]]],
          {t \in Triples : acol[t[1]][t[2]] = j})

\* rowstr after the prefix sum
RowStart(j) == SumOver([rw \in Rows |-> RowCount(rw)], 0..(j - 1))

\* nza = rowstr[nrows] - 1; if (nza > nz) ...
SpaceExceeded(total, cap) == total - 1 > cap

\* counting, prefix sum, the capacity test and the initialisation of the slices
SparsePass1 ==
  /\ stage = "sparse"
  /\ LET rs == [j \in 0..na |-> RowStart(j)]
         total == rs[na]
     IN
       /\ rowstr' = rs
       /\ IF SpaceExceeded(total, nz)
          THEN /\ stage' = "space_exceeded"
               /\ UNCHANGED <<a, colidx, nzloc>>
          ELSE /\ a' = [k \in DOMAIN a |-> IF k < total THEN 0 ELSE a[k]]
               /\ colidx' = [k \in DOMAIN colidx |->
                               IF k < total THEN -1 ELSE colidx[k]]
               /\ nzloc' = [j \in Rows |-> 0]
               \* a[k] with k >= nz is a write past the end of the buffer
               /\ stage' = IF total > nz THEN "overrun" ELSE "pass2"
  /\ UNCHANGED <<nz, genvars, patvars, loopvars, cgvars>>

\* rcond - shift added for every pattern that holds the diagonal element
VaEveryPattern(ii, jrow, jc, elt, scale) ==
  elt * scale + (IF jc = jrow THEN Grid(rcond - shift) ELSE 0)

\* va = aelt * scale, plus rcond - shift on the diagonal element of pattern i
Va(ii, jrow, jc, elt, scale) ==
  elt * scale + (IF jc = jrow /\ jrow = ii THEN Grid(rcond - shift) ELSE 0)

\* the slots at which the scan for (j, jcol) stops
ScanStops(ci, lo, hi, jc) ==
  {k \in lo..(hi - 1) : ci[k] > jc \/ ci[k] = -1 \/ ci[k] = jc}

\* an insertion that overwrites slot k without moving the entries above it
ShiftNone(arr, ci, k, hi) == arr

\* for (kk = rowstr[j+1]-2; kk >= k; kk--) if (colidx[kk] > -1) arr[kk+1] = arr[kk]
ShiftRight(arr, ci, k, hi) ==
  [m \in DOMAIN arr |->
     IF m - 1 >= k /\ m - 1 <= hi - 2 /\ ci[m - 1] > -1 THEN arr[m - 1] ELSE arr[m]]

\* a duplicate that is accumulated without being counted
FlagDuplicateNever(nl, j) == nl

\* nzloc[j] = nzloc[j] + 1
FlagDuplicate(nl, j) == [nl EXCEPT ![j] = @ + 1]

\* the three cases of the scan, then a[k] = a[k] + va
Place(ar, ci, nl, j, jc, va) ==
  LET lo == rowstr[j]
      hi == rowstr[j + 1]
      stops == ScanStops(ci, lo, hi, jc)
  IN
    IF stops = {}
    THEN [ok |-> FALSE, a |-> ar, colidx |-> ci, nzloc |-> nl]
    ELSE
      LET k == Min(stops) IN
        IF ci[k] > jc
        THEN [ok |-> TRUE,
              a |-> [ShiftRight(ar, ci, k, hi) EXCEPT ![k] = va],
              colidx |-> [ShiftRight(ci, ci, k, hi) EXCEPT ![k] = jc],
              nzloc |-> nl]
        ELSE IF ci[k] = -1
        THEN [ok |-> TRUE,
              a |-> [ar EXCEPT ![k] = @ + va],
              colidx |-> [ci EXCEPT ![k] = jc],
              nzloc |-> nl]
        ELSE [ok |-> TRUE,
              a |-> [ar EXCEPT ![k] = @ + va],
              colidx |-> ci,
              nzloc |-> FlagDuplicate(nl, j)]

\* one iteration of the innermost (nzrow) loop of pass 2
SparseInsert ==
  /\ stage = "pass2"
  /\ LET j == acol[i][nza]
         scale == size * aelt[i][nza]
         jcol == acol[i][nzrow]
         va == Va(i, j, jcol, aelt[i][nzrow], scale)
         res == Place(a, colidx, nzloc, j, jcol, va)
         rowdone == nzrow + 1 >= arow[i]
         patdone == rowdone /\ nza + 1 >= arow[i]
     IN
       IF ~res.ok
       THEN /\ stage' = "internal_error"
            /\ UNCHANGED <<matvars, loopvars>>
       ELSE /\ a' = res.a
            /\ colidx' = res.colidx
            /\ nzloc' = res.nzloc
            /\ rowstr' = rowstr
            /\ nzrow' = IF rowdone THEN 0 ELSE nzrow + 1
            /\ nza' = IF patdone THEN 0 ELSE IF rowdone THEN nza + 1 ELSE nza
            /\ i' = IF patdone THEN i + 1 ELSE i
            /\ size' = IF patdone THEN size * ratio ELSE size
            /\ stage' = IF patdone /\ i + 1 >= na THEN "compact" ELSE "pass2"
  /\ UNCHANGED <<nz, genvars, patvars, cgvars>>

\* nzloc left as the per-row counts
NzlocNoSum(nl, j) == nl[j]

\* for (j = 1; j < nrows; j++) nzloc[j] = nzloc[j] + nzloc[j-1]
NzlocSum(nl, j) == SumOver(nl, 0..j)

RECURSIVE CopyRow(_, _, _, _)
\* for (k = j1; k < j2; k++) { arr[k] = arr[nza]; nza = nza + 1; }
CopyRow(arr, k, j2, src) ==
  IF k < j2
  THEN CopyRow([arr EXCEPT ![k] = arr[src]], k + 1, j2, src + 1)
  ELSE arr

RECURSIVE CompactRows(_, _, _)
\* the row loop of the compaction; nl is nzloc after its prefix sum
CompactRows(arr, nl, j) ==
  IF j >= na
  THEN arr
  ELSE LET j1 == IF j > 0 THEN rowstr[j] - nl[j - 1] ELSE 0
           j2 == rowstr[j + 1] - nl[j]
       IN CompactRows(CopyRow(arr, j1, j2, rowstr[j]), nl, j + 1)

\* the compaction pass and the adjustment of rowstr
SparseCompact ==
  /\ stage = "compact"
  /\ LET nl == [j \in Rows |-> NzlocSum(nzloc, j)] IN
       /\ nzloc' = nl
       /\ a' = CompactRows(a, nl, 0)
       /\ colidx' = CompactRows(colidx, nl, 0)
       /\ rowstr' = [j \in 0..na |-> IF j >= 1 THEN rowstr[j] - nl[j - 1] ELSE rowstr[j]]
  /\ stage' = "done"
  /\ UNCHANGED <<nz, genvars, patvars, loopvars, cgvars>>

Next ==
  \/ SprnvcDraw
  \/ MakeaRow
  \/ SparsePass1
  \/ SparseInsert
  \/ SparseCompact

Spec == Init /\ [][Next]_vars

\* sparse called with a buffer of any capacity up to NZ
InitNZ ==
  /\ nz \in 0..NZ
  /\ InitMakea

SpecNZ == InitNZ /\ [][Next]_vars

\* sprnvc on its own, called with (n, nz, nn1) and arrays of nz + 1 elements
InitSprnvc ==
  /\ nz = NZ
  /\ stage = "sprnvc"
  /\ spn \in 1..MaxSprnvcN
  /\ spnz \in 0..spn
  /\ iouter = 0
  /\ nzv = 0
  /\ v = [m \in 0..spnz |-> 0]
  /\ iv = [m \in 0..spnz |-> 0]
  /\ vecelt = 0
  /\ vecloc = 0
  /\ arow = [rw \in Rows |-> 0]
  /\ acol = [rw \in Rows |-> ZeroVec]
  /\ aelt = [rw \in Rows |-> ZeroVec]
  /\ a = [k \in 0..(nz - 1) |-> 0]
  /\ colidx = [k \in 0..(nz - 1) |-> 0]
  /\ rowstr = [j \in 0..na |-> 0]
  /\ nzloc = [j \in Rows |-> 0]
  /\ i = 0
  /\ nza = 0
  /\ nzrow = 0
  /\ size = 1
  /\ CgIdle

NextSprnvc ==
  \/ SprnvcDraw
  \/ SprnvcReturn

SpecSprnvc == InitSprnvc /\ [][NextSprnvc]_vars

\* ------------------------------------------------- the row patterns, read back
\* pattern pt contains column c
InPattern(pt, c) == \E m \in 0..(arow[pt] - 1) : acol[pt][m] = c

\* the element of pattern pt in column c
PatternValue(pt, c) ==
  aelt[pt][CHOOSE m \in 0..(arow[pt] - 1) : acol[pt][m] = c]

\* the patterns that contribute to entry (j, c)
Contributors(j, c) == {pt \in Rows : InPattern(pt, j) /\ InPattern(pt, c)}

\* entry (j, c) of the dense reference matrix
Dense(j, c) ==
  SumOver([pt \in Rows |-> Pow(ratio, pt) * PatternValue(pt, j) * PatternValue(pt, c)],
          Contributors(j, c))
  + (IF j = c THEN Grid(rcond - shift) ELSE 0)

\* the slots of row j
Slice(j) == rowstr[j]..(rowstr[j + 1] - 1)

\* the slots of row j that hold column c
SlotsOf(j, c) == {k \in Slice(j) : colidx[k] = c}

\* ---------------------------------------------------------------- claims
\* C1: after sparse completes, rowstr[0] = 0, rowstr is non-decreasing, the
\* column indices of every row slice are strictly increasing, and rowstr[n]
\* is the number of stored nonzeros (the number of (row, column) pairs that
\* some pattern contributes to).
C1_CsrWellFormed ==
  stage = "done" =>
    /\ rowstr[0] = 0
    /\ \A j \in Rows : rowstr[j] <= rowstr[j + 1]
    /\ \A j \in Rows : \A k \in Slice(j) :
         (k + 1) \in Slice(j) => colidx[k] < colidx[k + 1]
    /\ rowstr[na] =
         Cardinality({e \in Rows \X Rows : Contributors(e[1], e[2]) # {}})

\* an assembled matrix with a row of several columns and merged duplicates
C1_Witness ==
  /\ stage = "done"
  /\ \E j \in Rows : rowstr[j + 1] - rowstr[j] >= 2
  /\ nzloc[na - 1] > 0

\* C2: the assembled matrix equals the dense reference: (j, c) is stored iff
\* some pattern contains both j and c, it is stored in exactly one slot, and
\* its value is the sum of size_i * v_i[j] * v_i[c] over those patterns, plus
\* rcond - shift on the diagonal only.
C2_EqualsDense ==
  stage = "done" =>
    \A j \in Rows, c \in Rows :
      /\ (SlotsOf(j, c) # {}) <=> (Contributors(j, c) # {})
      /\ Cardinality(SlotsOf(j, c)) <= 1
      /\ \A k \in SlotsOf(j, c) : a[k] = Dense(j, c)

\* an assembled matrix with an off-diagonal entry summed from two patterns
C2_Witness ==
  /\ stage = "done"
  /\ \E j \in Rows, c \in Rows :
       /\ j # c
       /\ Cardinality(Contributors(j, c)) >= 2
       /\ SlotsOf(j, c) # {}

\* C3: after the compaction pass every slot below rowstr[n] holds a live
\* entry (a column in [0, na), no -1 sentinel) and no (row, column) pair
\* occupies two slots.
C3_NoGaps ==
  stage = "done" =>
    /\ \A k \in 0..(rowstr[na] - 1) : colidx[k] \in Rows
    /\ \A j \in Rows : \A k1 \in Slice(j), k2 \in Slice(j) :
         colidx[k1] = colidx[k2] => k1 = k2

\* a compaction that moved a row to the left over the gaps of an earlier row
C3_Witness ==
  /\ stage = "done"
  /\ \E j \in 1..(na - 1) : nzloc[j - 1] > 0 /\ rowstr[j + 1] > rowstr[j]

\* the buffers as they were before sparse was called
Untouched ==
  /\ a = [k \in 0..(nz - 1) |-> 0]
  /\ colidx = [k \in 0..(nz - 1) |-> 0]

\* C4: whenever pass 1 requires more slots than nz, sparse takes the fatal
\* path before a or colidx is written.
C4_FatalWhenTooSmall ==
  (stage \notin {"sprnvc", "sparse"} /\ rowstr[na] > nz) =>
    (stage = "space_exceeded" /\ Untouched)

\* C5: every insertion of pass 2 is placed by one of the three cases of the
\* scan; the internal-error path is never taken.
C5_NoInternalError ==
  /\ stage # "internal_error"
  /\ stage = "pass2" =>
       ScanStops(colidx, rowstr[acol[i][nza]], rowstr[acol[i][nza] + 1],
                 acol[i][nzrow]) # {}

\* an insertion for which only the last slot of the row slice is left
C5_Witness ==
  /\ stage = "pass2"
  /\ LET j == acol[i][nza]
         stops == ScanStops(colidx, rowstr[j], rowstr[j + 1], acol[i][nzrow])
     IN stops = {rowstr[j + 1] - 1}

\* C6: when sprnvc returns, the first nz entries of iv are pairwise distinct
\* and lie in [1, n]; a draw that is out of range or repeats an accepted
\* index leaves v, iv and nzv unchanged.
C6_DistinctInRange ==
  /\ [](stage = "returned" =>
         /\ nzv = spnz
         /\ \A m \in 0..(spnz - 1) : iv[m] \in 1..spn
         /\ \A m1 \in 0..(spnz - 1), m2 \in 0..(spnz - 1) :
              iv[m1] = iv[m2] => m1 = m2)
  /\ [][(/\ stage = "sprnvc"
         /\ stage' = "sprnvc"
         /\ LET idx == ((Nn1(spn) * vecloc') \div RandDen) + 1 IN
              \/ idx > spn
              \/ \E m \in 0..(nzv - 1) : iv[m] = idx)
        => UNCHANGED <<v, iv, nzv>>]_vars

\* sprnvc holds two accepted indices and its last draw repeated the first one
C6_Witness ==
  /\ stage = "sprnvc"
  /\ nzv >= 2
  /\ nzv < spnz
  /\ vecelt # 0
  /\ ((Nn1(spn) * vecloc) \div RandDen) + 1 = iv[0]

\* ------------------------------------------------- the parallel region
\* schedule(static) without a chunk size: one contiguous block per thread
ChunkLo(t, n) ==
  t * (n \div num_threads) + (IF t < n % num_threads THEN t ELSE n % num_threads)

ChunkLen(t, n) == (n \div num_threads) + (IF t < n % num_threads THEN 1 ELSE 0)

\* the iterations of a loop of n iterations that thread t executes
Chunk(t, n) == {j \in 0..(n - 1) : ChunkLo(t, n) <= j /\ j < ChunkLo(t, n) + ChunkLen(t, n)}

\* the columns stored in row j
Cols(j) == {colidx[k] : k \in Slice(j)}

Elems(name, S) == {<<name, j>> : j \in S}

\* thread t read the elements rds and wrote the elements wrs
Touch(t, rds, wrs) ==
  [e \in DOMAIN acc |->
     [rd |-> IF e \in rds THEN acc[e].rd \cup {t} ELSE acc[e].rd,
      wr |-> IF e \in wrs THEN acc[e].wr \cup {t} ELSE acc[e].wr]]

\* a reduction: the terms of the iterations S are added to the scalar
AddTerms(scalar, S) ==
  [j \in DOMAIN scalar |-> IF j \in S THEN scalar[j] + 1 ELSE scalar[j]]

\* a loop that stops one iteration early
LoopContinuesShort(c) == c < cgitmax

\* for (cgit = 1; cgit <= cgitmax; cgit++)
LoopContinues(c) == c <= cgitmax

\* a timed loop that stops one iteration early
OuterContinuesShort(o) == o < niter

\* for (it = 1; it <= niter; it++)
OuterContinues(o) == o <= niter

\* thread t leaves a construct: next is the construct that follows
Goto(t, next, m) ==
  /\ pc' = [pc EXCEPT ![t] = next]
  /\ mode' = [mode EXCEPT ![t] = m]

Running(t, where) == mode[t] = "run" /\ pc[t] = where

\* ---------------------------------------------------------- single constructs
SinglePcs ==
  {"cg_single", "it_single", "rnorm",
   "dp_zeta_w", "dp_norm_w", "dp_zeta_t", "dp_norm_t",
   "dr_zeta_w", "dr_nt0_w", "dr_inv_w", "dr_zeta_t", "dr_nt0_t", "dr_inv_t"}

\* single nowait
SingleNowait(c) == c \in {"cg_single", "it_single"}

\* the construct conj_grad returns to (it = 0 during the warm-up)
ReturnPc(t) ==
  IF impl = "port"
  THEN (IF it[t] = 0 THEN "dp_norm_w" ELSE "dp_norm_t")
  ELSE (IF it[t] = 0 THEN "dr_nt0_w" ELSE "dr_nt0_t")

\* the value of it after the single construct c
ItAfterSingle(c, t) ==
  CASE c = "dp_zeta_t" -> 1
    [] c = "dp_norm_t" -> it[t] + 1
    [] OTHER -> it[t]

\* the construct that follows the single construct c
AfterSingle(c, t) ==
  CASE c = "cg_single" -> "cg_init"
    [] c = "it_single" -> "matvec"
    [] c = "rnorm" -> ReturnPc(t)
    [] c \in {"dp_zeta_w", "dr_zeta_w"} -> "cg_single"
    [] c = "dp_norm_w" -> "dp_init_t"
    [] c = "dp_zeta_t" -> IF OuterContinues(1) THEN "cg_single" ELSE "end"
    [] c = "dr_zeta_t" -> "dr_master"
    [] c = "dr_nt0_w" -> "dr_norm_w"
    [] c = "dr_inv_w" -> "dr_x_w"
    [] c = "dr_nt0_t" -> "dr_norm_t"
    [] c = "dr_inv_t" -> "dr_x_t"
    [] c = "dp_norm_t" -> IF OuterContinues(it[t] + 1) THEN "cg_single" ELSE "end"

LeaveSingle(t) ==
  /\ Goto(t, AfterSingle(pc[t], t), IF SingleNowait(pc[t]) THEN "run" ELSE "wait")
  /\ it' = [it EXCEPT ![t] = ItAfterSingle(pc[t], t)]

\* a thread meets a single construct: the first one to arrive executes it
SingleEnter(t) ==
  /\ mode[t] = "run"
  /\ pc[t] \in SinglePcs
  /\ seen' = [seen EXCEPT ![t] = @ + 1]
  /\ IF seen[t] = claimed
     THEN /\ claimed' = claimed + 1
          /\ mode' = [mode EXCEPT ![t] = "body"]
          /\ UNCHANGED <<pc, it>>
     ELSE /\ claimed' = claimed
          /\ LeaveSingle(t)
  /\ calls' = [calls EXCEPT ![t] = IF pc[t] = "cg_single" THEN @ + 1 ELSE @]
  /\ UNCHANGED <<libvars, makeavars, mainvars, tbench, impl, cgit, alpha, beta, vecvars, redvars, drvvars, acc>>

InBody(t, where) == mode[t] = "body" /\ pc[t] \in where

\* #pragma omp single nowait { rho = 0.0; sum = 0.0; }
CgReset(t) ==
  /\ InBody(t, {"cg_single"})
  /\ rho' = NoTerms
  /\ sum' = NoTerms
  /\ LeaveSingle(t)
  /\ UNCHANGED <<libvars, makeavars, mainvars, calls, tbench, impl, cgit, alpha, beta, seen, claimed, vecvars, d, rho0, rnorm, drvvars, acc>>

\* #pragma omp single nowait { d = 0.0; rho0 = rho; rho = 0.0; }
IterReset(t) ==
  /\ InBody(t, {"it_single"})
  /\ d' = NoTerms
  /\ rho0' = rho
  /\ rho' = NoTerms
  /\ LeaveSingle(t)
  /\ UNCHANGED <<libvars, makeavars, mainvars, calls, tbench, impl, cgit, alpha, beta, seen, claimed, vecvars, sum, rnorm, drvvars, acc>>

\* #pragma omp single  *rnorm = sqrt(sum);
Rnorm(t) ==
  /\ InBody(t, {"rnorm"})
  /\ rnorm' = sum
  /\ LeaveSingle(t)
  /\ UNCHANGED <<libvars, makeavars, mainvars, calls, tbench, impl, cgit, alpha, beta, seen, claimed, vecvars, d, rho, rho0, sum, drvvars, acc>>

\* #pragma omp single  zeta = 0.0;
ZetaReset(t) ==
  /\ InBody(t, {"dp_zeta_w", "dp_zeta_t", "dr_zeta_w", "dr_zeta_t"})
  /\ zeta' = ZetaZero
  /\ LeaveSingle(t)
  /\ UNCHANGED <<libvars, makeavars, mainvars, calls, tbench, impl, cgit, alpha, beta, seen, claimed, vecvars, redvars, norm_temp1, norm_temp2, acc>>

\* ------------------------------------------------------------- conj_grad
\* #pragma omp for: q[j] = 0; z[j] = 0; r[j] = x[j]; p[j] = r[j];  (j < naa + 1)
CgInit(t) ==
  /\ Running(t, "cg_init")
  /\ LET js == Chunk(t, na + 1) IN
       /\ q' = [j \in VecIdx |-> IF j \in js THEN [it |-> 0, ps |-> {}] ELSE q[j]]
       /\ z' = [j \in VecIdx |-> IF j \in js THEN 0 ELSE z[j]]
       /\ r' = [j \in VecIdx |-> IF j \in js THEN 0 ELSE r[j]]
       /\ p' = [j \in VecIdx |-> IF j \in js THEN 0 ELSE p[j]]
       /\ acc' = Touch(t, Elems("x", js),
                       Elems("q", js) \cup Elems("z", js) \cup Elems("r", js) \cup Elems("p", js))
  /\ Goto(t, "cg_rho", "wait")
  /\ UNCHANGED <<libvars, makeavars, mainvars, calls, tbench, impl, cgit, it, alpha, beta, seen, claimed, x, redvars, drvvars>>

\* #pragma omp for reduction(+:rho): rho += r[j] * r[j]; then cgit = 1
CgRho(t) ==
  /\ Running(t, "cg_rho")
  /\ LET js == Chunk(t, na) IN
       /\ rho' = AddTerms(rho, js)
       /\ acc' = Touch(t, Elems("r", js), {})
  /\ cgit' = [cgit EXCEPT ![t] = 1]
  /\ Goto(t, IF LoopContinues(1) THEN "it_single" ELSE "resid", "wait")
  /\ UNCHANGED <<libvars, makeavars, mainvars, calls, tbench, impl, it, alpha, beta, seen, claimed, vecvars, d, rho0, sum, rnorm, drvvars>>

\* #pragma omp for nowait: q[j] = sum over k of a[k] * p[colidx[k]]
MatVec(t) ==
  /\ Running(t, "matvec")
  /\ LET js == Chunk(t, na) IN
       /\ q' = [j \in VecIdx |->
                  IF j \in js THEN [it |-> cgit[t], ps |-> {p[c] : c \in Cols(j)}] ELSE q[j]]
       /\ acc' = Touch(t, UNION {Elems("p", Cols(j)) : j \in js}, Elems("q", js))
  /\ Goto(t, "dot_pq", "run")
  /\ UNCHANGED <<libvars, makeavars, mainvars, calls, tbench, impl, cgit, it, alpha, beta, seen, claimed, x, z, p, r, redvars, drvvars>>

\* #pragma omp for reduction(+:d): d += p[j] * q[j]
DotPQ(t) ==
  /\ Running(t, "dot_pq")
  /\ LET js == Chunk(t, na) IN
       /\ d' = AddTerms(d, js)
       /\ acc' = Touch(t, Elems("p", js) \cup Elems("q", js), {})
  /\ Goto(t, "upd_zr", "wait")
  /\ UNCHANGED <<libvars, makeavars, mainvars, calls, tbench, impl, cgit, it, alpha, beta, seen, claimed, vecvars, rho, rho0, sum, rnorm, drvvars>>

\* alpha = rho0 / d; #pragma omp for reduction(+:rho): z, r updated, rho += r[j] * r[j]
UpdZR(t) ==
  /\ Running(t, "upd_zr")
  /\ alpha' = [alpha EXCEPT ![t] = <<[rho0 |-> rho0, d |-> d]>>]
  /\ LET js == Chunk(t, na) IN
       /\ z' = [j \in VecIdx |-> IF j \in js THEN z[j] + 1 ELSE z[j]]
       /\ r' = [j \in VecIdx |-> IF j \in js THEN r[j] + 1 ELSE r[j]]
       /\ rho' = AddTerms(rho, js)
       /\ acc' = Touch(t, Elems("p", js) \cup Elems("q", js) \cup Elems("z", js) \cup Elems("r", js),
                       Elems("z", js) \cup Elems("r", js))
  /\ Goto(t, "upd_p", "wait")
  /\ UNCHANGED <<libvars, makeavars, mainvars, calls, tbench, impl, cgit, it, beta, seen, claimed, x, p, q, d, rho0, sum, rnorm, drvvars>>

\* a p update with nowait
UpdPNowait == "run"

\* the p update is a loop without nowait
UpdPEnds == "wait"

\* beta = rho / rho0; #pragma omp for: p[j] = r[j] + beta * p[j]; then cgit++
UpdP(t) ==
  /\ Running(t, "upd_p")
  /\ beta' = [beta EXCEPT ![t] = <<[rho |-> rho, rho0 |-> rho0]>>]
  /\ LET js == Chunk(t, na) IN
       /\ p' = [j \in VecIdx |-> IF j \in js THEN p[j] + 1 ELSE p[j]]
       /\ acc' = Touch(t, Elems("r", js) \cup Elems("p", js), Elems("p", js))
  /\ cgit' = [cgit EXCEPT ![t] = @ + 1]
  /\ Goto(t, IF LoopContinues(cgit[t] + 1) THEN "it_single" ELSE "resid", UpdPEnds)
  /\ UNCHANGED <<libvars, makeavars, mainvars, calls, tbench, impl, it, alpha, seen, claimed, x, z, q, r, redvars, drvvars>>

\* #pragma omp for nowait: r[j] = sum over k of a[k] * z[colidx[k]]
Resid(t) ==
  /\ Running(t, "resid")
  /\ LET js == Chunk(t, na) IN
       /\ r' = [j \in VecIdx |-> IF j \in js THEN AzRow ELSE r[j]]
       /\ acc' = Touch(t, UNION {Elems("z", Cols(j)) : j \in js}, Elems("r", js))
  /\ Goto(t, "norm_sum", "run")
  /\ UNCHANGED <<libvars, makeavars, mainvars, calls, tbench, impl, cgit, it, alpha, beta, seen, claimed, x, z, p, q, redvars, drvvars>>

\* #pragma omp for reduction(+:sum): sum += (x[j] - r[j])^2
NormSum(t) ==
  /\ Running(t, "norm_sum")
  /\ LET js == Chunk(t, na) IN
       /\ sum' = AddTerms(sum, js)
       /\ acc' = Touch(t, Elems("x", js) \cup Elems("r", js), {})
  /\ Goto(t, "rnorm", "wait")
  /\ UNCHANGED <<libvars, makeavars, mainvars, calls, tbench, impl, cgit, it, alpha, beta, seen, claimed, vecvars, d, rho, rho0, rnorm, drvvars>>

\* -------------------------------------------- driver of master_t_parallel_c
ProductStale(j) == [x |-> Ones, z |-> z[j]]

\* the operands of x[j] * z[j]
Product(j) == [x |-> x[j], z |-> z[j]]

\* initialize_vectors(), executed by every thread of the team
PortInitVectors(t) ==
  /\ mode[t] = "run"
  /\ pc[t] \in {"dp_init_w", "dp_init_t"}
  /\ x' = [j \in VecIdx |-> IF j <= na THEN Ones ELSE x[j]]
  /\ q' = [j \in VecIdx |-> IF j < na THEN QZeroed ELSE q[j]]
  /\ z' = [j \in VecIdx |-> IF j < na THEN Zeroed ELSE z[j]]
  /\ r' = [j \in VecIdx |-> IF j < na THEN Zeroed ELSE r[j]]
  /\ p' = [j \in VecIdx |-> IF j < na THEN Zeroed ELSE p[j]]
  /\ acc' = Touch(t, {},
                  Elems("x", 0..na) \cup Elems("q", 0..(na - 1)) \cup Elems("z", 0..(na - 1))
                    \cup Elems("r", 0..(na - 1)) \cup Elems("p", 0..(na - 1)))
  /\ Goto(t, IF pc[t] = "dp_init_w" THEN "dp_zeta_w" ELSE "dp_zeta_t", "run")
  /\ UNCHANGED <<libvars, makeavars, mainvars, calls, tbench, impl, cgit, it, alpha, beta, seen, claimed, redvars, drvvars>>

\* #pragma omp single: compute_norms_and_normalize(), and zeta in the timed loop
PortNorms(t) ==
  /\ InBody(t, {"dp_norm_w", "dp_norm_t"})
  /\ norm_temp1' = [j \in 0..(na - 1) |-> <<Product(j)>>]
  /\ norm_temp2' = AllTerms
  /\ x' = [j \in VecIdx |-> IF j < na THEN Norm(calls[t]) ELSE x[j]]
  /\ zeta' = IF pc[t] = "dp_norm_t" THEN [it |-> it[t], by |-> norm_temp1'] ELSE zeta
  /\ acc' = Touch(t, Elems("x", 0..(na - 1)) \cup Elems("z", 0..(na - 1)),
                  Elems("x", 0..(na - 1)))
  /\ LeaveSingle(t)
  /\ UNCHANGED <<libvars, makeavars, mainvars, calls, tbench, impl, cgit, alpha, beta, seen, claimed, z, p, q, r, redvars>>

\* ------------------------------------------------ driver of NPB-OMP (reference)
\* the column range of a second block of columns
firstcolShifted == na

\* firstcol = 0
firstcol == 0

\* #pragma omp for nowait: colidx[k] = colidx[k] - firstcol
RefColidx(t) ==
  /\ Running(t, "dr_colidx")
  /\ colidx' = [k \in DOMAIN colidx |->
                  IF \E j \in Chunk(t, na) : k \in Slice(j)
                  THEN colidx[k] - firstcol ELSE colidx[k]]
  /\ Goto(t, "dr_x1_w", "run")
  /\ UNCHANGED <<stage, nz, genvars, patvars, a, rowstr, nzloc, loopvars>>
  /\ UNCHANGED <<libvars, mainvars, calls, tbench, impl, cgit, it, alpha, beta, seen, claimed, vecvars, redvars, drvvars, acc>>

\* #pragma omp for [nowait]: x[i] = 1.0  (i < na + 1)
RefOnes(t) ==
  /\ mode[t] = "run"
  /\ pc[t] \in {"dr_x1_w", "dr_x1_t"}
  /\ LET js == Chunk(t, na + 1) IN
       /\ x' = [j \in VecIdx |-> IF j \in js THEN Ones ELSE x[j]]
       /\ acc' = Touch(t, {}, Elems("x", js))
  /\ IF pc[t] = "dr_x1_w" THEN Goto(t, "dr_zero", "run") ELSE Goto(t, "dr_zeta_t", "wait")
  /\ UNCHANGED <<libvars, makeavars, mainvars, calls, tbench, impl, cgit, it, alpha, beta, seen, claimed, z, p, q, r, redvars, drvvars>>

\* #pragma omp for nowait: q[j] = z[j] = r[j] = p[j] = 0.0
RefZero(t) ==
  /\ Running(t, "dr_zero")
  /\ LET js == Chunk(t, na) IN
       /\ q' = [j \in VecIdx |-> IF j \in js THEN QZeroed ELSE q[j]]
       /\ z' = [j \in VecIdx |-> IF j \in js THEN Zeroed ELSE z[j]]
       /\ r' = [j \in VecIdx |-> IF j \in js THEN Zeroed ELSE r[j]]
       /\ p' = [j \in VecIdx |-> IF j \in js THEN Zeroed ELSE p[j]]
       /\ acc' = Touch(t, {},
                       Elems("q", js) \cup Elems("z", js) \cup Elems("r", js) \cup Elems("p", js))
  /\ Goto(t, "dr_zeta_w", "run")
  /\ UNCHANGED <<libvars, makeavars, mainvars, calls, tbench, impl, cgit, it, alpha, beta, seen, claimed, x, redvars, drvvars>>

\* #pragma omp single { norm_temp1 = 0.0; norm_temp2 = 0.0; }
RefNormsReset(t) ==
  /\ InBody(t, {"dr_nt0_w", "dr_nt0_t"})
  /\ norm_temp1' = NoProducts
  /\ norm_temp2' = NoTerms
  /\ LeaveSingle(t)
  /\ UNCHANGED <<libvars, makeavars, mainvars, calls, tbench, impl, cgit, alpha, beta, seen, claimed, vecvars, redvars, zeta, acc>>

\* #pragma omp for reduction(+:norm_temp1,norm_temp2)
RefNorms(t) ==
  /\ mode[t] = "run"
  /\ pc[t] \in {"dr_norm_w", "dr_norm_t"}
  /\ LET js == Chunk(t, na) IN
       /\ norm_temp1' = [j \in 0..(na - 1) |->
                            IF j \in js
                            THEN Append(norm_temp1[j], Product(j))
                            ELSE norm_temp1[j]]
       /\ norm_temp2' = AddTerms(norm_temp2, js)
       /\ acc' = Touch(t, Elems("x", js) \cup Elems("z", js), {})
  /\ Goto(t, IF pc[t] = "dr_norm_w" THEN "dr_inv_w" ELSE "dr_inv_t", "wait")
  /\ UNCHANGED <<libvars, makeavars, mainvars, calls, tbench, impl, cgit, it, alpha, beta, seen, claimed, vecvars, redvars, zeta>>

\* #pragma omp single: norm_temp2 = 1.0 / sqrt(norm_temp2), and zeta in the timed loop
RefInv(t) ==
  /\ InBody(t, {"dr_inv_w", "dr_inv_t"})
  /\ zeta' = IF pc[t] = "dr_inv_t" THEN [it |-> it[t], by |-> norm_temp1] ELSE zeta
  /\ LeaveSingle(t)
  /\ UNCHANGED <<libvars, makeavars, mainvars, calls, tbench, impl, cgit, alpha, beta, seen, claimed, vecvars, redvars,
                 norm_temp1, norm_temp2, acc>>

\* #pragma omp for: x[j] = norm_temp2 * z[j]; the end of an outer iteration
RefScale(t) ==
  /\ mode[t] = "run"
  /\ pc[t] \in {"dr_x_w", "dr_x_t"}
  /\ LET js == Chunk(t, na) IN
       /\ x' = [j \in VecIdx |-> IF j \in js THEN Norm(calls[t]) ELSE x[j]]
       /\ acc' = Touch(t, Elems("z", js), Elems("x", js))
  /\ IF pc[t] = "dr_x_w"
     THEN /\ Goto(t, "dr_x1_t", "wait")
          /\ it' = it
     ELSE /\ Goto(t, IF OuterContinues(it[t] + 1) THEN "cg_single" ELSE "end", "wait")
          /\ it' = [it EXCEPT ![t] = @ + 1]
  /\ UNCHANGED <<libvars, makeavars, mainvars, calls, tbench, impl, cgit, alpha, beta, seen, claimed, z, p, q, r, redvars, drvvars>>

\* #pragma omp master { timer_stop(T_INIT); timer_start(T_BENCH); }, then it = 1
RefMaster(t) ==
  /\ Running(t, "dr_master")
  /\ tbench' = IF t = 0 THEN "running" ELSE tbench
  /\ it' = [it EXCEPT ![t] = 1]
  /\ Goto(t, IF OuterContinues(1) THEN "cg_single" ELSE "end", "run")
  /\ UNCHANGED <<libvars, makeavars, mainvars, calls, impl, cgit, alpha, beta, seen, claimed, vecvars, redvars, drvvars, acc>>

\* the end of the parallel region
RegionEnd(t) ==
  /\ Running(t, "end")
  /\ Goto(t, "joined", "wait")
  /\ UNCHANGED <<libvars, makeavars, mainvars, calls, tbench, impl, cgit, it, alpha, beta, seen, claimed, vecvars, redvars, drvvars, acc>>

\* an implicit barrier: every thread of the team has arrived
Barrier ==
  /\ \A t \in Threads : mode[t] = "wait"
  /\ \E t \in Threads : pc[t] # "joined"
  /\ mode' = [t \in Threads |-> "run"]
  /\ seen' = [t \in Threads |-> 0]
  /\ claimed' = 0
  /\ acc' = NoAccess
  /\ UNCHANGED <<libvars, makeavars, mainvars, calls, tbench, impl, pc, cgit, it, alpha, beta, vecvars, redvars, drvvars>>

\* rows j holds the columns within bw of the diagonal
BandLo(j, bw) == IF j - bw > 0 THEN j - bw ELSE 0

BandHi(j, bw) == IF j + bw < na - 1 THEN j + bw ELSE na - 1

BandStart(j, bw) ==
  SumOver([rw \in Rows |-> BandHi(rw, bw) - BandLo(rw, bw) + 1], 0..(j - 1))

\* the state at #pragma omp parallel: makea has assembled a matrix
InitCG ==
  /\ LibIdle
  /\ stage = "done"
  /\ nz = NZ
  /\ spn = na
  /\ spnz = nonzer
  /\ iouter = na
  /\ nzv = 0
  /\ v = ZeroVec
  /\ iv = ZeroVec
  /\ vecelt = 0
  /\ vecloc = 0
  /\ arow = [rw \in Rows |-> 0]
  /\ acol = [rw \in Rows |-> ZeroVec]
  /\ aelt = [rw \in Rows |-> ZeroVec]
  /\ nzloc = [j \in Rows |-> 0]
  /\ i = na
  /\ nza = 0
  /\ nzrow = 0
  /\ size = 1
  /\ \E bw \in {0, nonzer} :
       /\ rowstr = [j \in 0..na |-> BandStart(j, bw)]
       /\ colidx = [k \in 0..(nz - 1) |->
                      IF \E j \in Rows : BandStart(j, bw) <= k /\ k < BandStart(j + 1, bw)
                      THEN LET j == CHOOSE j \in Rows :
                                      BandStart(j, bw) <= k /\ k < BandStart(j + 1, bw)
                           IN BandLo(j, bw) + (k - BandStart(j, bw))
                      ELSE 0]
  /\ a = [k \in 0..(nz - 1) |-> 0]
  /\ impl \in {"omp", "port"}
  /\ pc = [t \in Threads |-> IF impl = "port" THEN "dp_init_w" ELSE "dr_colidx"]
  /\ mode = [t \in Threads |-> "run"]
  /\ cgit = [t \in Threads |-> 0]
  /\ it = [t \in Threads |-> 0]
  /\ alpha = [t \in Threads |-> <<>>]
  /\ beta = [t \in Threads |-> <<>>]
  /\ seen = [t \in Threads |-> 0]
  /\ claimed = 0
  /\ x = [j \in VecIdx |-> IF impl = "port" THEN XZero ELSE XUninit]
  /\ z = [j \in VecIdx |-> IF impl = "port" THEN Zeroed ELSE Uninit]
  /\ p = [j \in VecIdx |-> IF impl = "port" THEN Zeroed ELSE Uninit]
  /\ q = [j \in VecIdx |-> QZeroed]
  /\ r = [j \in VecIdx |-> IF impl = "port" THEN Zeroed ELSE Uninit]
  /\ d = NoTerms
  /\ rho = NoTerms
  /\ rho0 = NoTerms
  /\ sum = NoTerms
  /\ rnorm = NoTerms
  /\ norm_temp1 = NoProducts
  /\ norm_temp2 = NoTerms
  /\ zeta = ZetaZero
  /\ acc = NoAccess
  /\ calls = [t \in Threads |-> 0]
  /\ tbench = IF impl = "port" THEN "running" ELSE "clear"
  /\ MainIdle

NextCG ==
  \/ \E t \in Threads : SingleEnter(t)
  \/ \E t \in Threads : CgReset(t)
  \/ \E t \in Threads : IterReset(t)
  \/ \E t \in Threads : Rnorm(t)
  \/ \E t \in Threads : ZetaReset(t)
  \/ \E t \in Threads : CgInit(t)
  \/ \E t \in Threads : CgRho(t)
  \/ \E t \in Threads : MatVec(t)
  \/ \E t \in Threads : DotPQ(t)
  \/ \E t \in Threads : UpdZR(t)
  \/ \E t \in Threads : UpdP(t)
  \/ \E t \in Threads : Resid(t)
  \/ \E t \in Threads : NormSum(t)
  \/ \E t \in Threads : PortInitVectors(t)
  \/ \E t \in Threads : PortNorms(t)
  \/ \E t \in Threads : RefColidx(t)
  \/ \E t \in Threads : RefOnes(t)
  \/ \E t \in Threads : RefZero(t)
  \/ \E t \in Threads : RefNormsReset(t)
  \/ \E t \in Threads : RefNorms(t)
  \/ \E t \in Threads : RefInv(t)
  \/ \E t \in Threads : RefScale(t)
  \/ \E t \in Threads : RefMaster(t)
  \/ \E t \in Threads : RegionEnd(t)
  \/ Barrier

SpecCG == InitCG /\ [][NextCG]_vars

\* the threads are scheduled: a step that stays possible is taken
FairSpecCG == SpecCG /\ WF_vars(NextCG)

\* ------------------------------------------------------ claims on conj_grad
InLoop == {"it_single", "matvec", "dot_pq", "upd_zr", "upd_p"}

AfterLoop == {"resid", "norm_sum", "rnorm"}

ReturnPcs == {"dp_norm_w", "dp_norm_t", "dr_nt0_w", "dr_nt0_t"}

OwnRows(t) == Chunk(t, na)

\* C7: every call of conj_grad performs exactly cgitmax = 25 inner iterations
\* on every thread, whatever the reduction scalars hold, and then returns: a
\* thread inside the loop is at an iteration 1..25, a thread behind the loop
\* has left it with cgit = 26 after 25 updates of its part of z and p, and
\* once a thread has entered conj_grad every thread reaches the return.
C7_ExactlyCgitmax ==
  /\ [](\A t \in Threads :
          /\ pc[t] \in InLoop => cgit[t] \in 1..cgitmax
          /\ pc[t] \in AfterLoop =>
               /\ cgit[t] = cgitmax + 1
               /\ \A j \in OwnRows(t) : z[j] = cgitmax /\ p[j] = cgitmax)
  /\ (\E t \in Threads : pc[t] = "cg_single") ~> (\A t \in Threads : pc[t] \in ReturnPcs)

C7_Witness ==
  \E t \in Threads :
    /\ mode[t] = "run"
    /\ pc[t] \in ReturnPcs
    /\ it[t] >= 1
    /\ cgit[t] = cgitmax + 1
    /\ \E u \in Threads : alpha[u] # <<>> /\ alpha[u][1].d # AllTerms

\* C8: in every interleaving each reduction scalar that is used is the
\* complete sum, every term counted once: the d a thread divides by in alpha,
\* the rho it uses in beta, and the sum whose root is returned as rnorm.
C8_CompleteSums ==
  /\ \A t \in Threads : alpha[t] # <<>> => alpha[t][1].d = AllTerms
  /\ \A t \in Threads : beta[t] # <<>> => beta[t][1].rho = AllTerms
  /\ (\E t \in Threads : mode[t] = "run" /\ pc[t] \in ReturnPcs) => rnorm = AllTerms

C10_ExclusiveAccess ==
  \A e \in DOMAIN acc :
    /\ Cardinality(acc[e].wr) <= 1
    /\ \A t \in acc[e].wr : acc[e].rd \subseteq {t}

\* ------------------------------------------------- claims on the driver loop
AllJoined == \A t \in Threads : pc[t] = "joined"

InConjGrad == {"cg_init", "cg_rho"} \cup InLoop \cup AfterLoop

\* thread t is inside a call of conj_grad
InsideCall(t) == pc[t] \in InConjGrad \/ (pc[t] = "cg_single" /\ mode[t] = "body")

\* thread t is about to call conj_grad
AtCall(t) == pc[t] = "cg_single" /\ mode[t] = "run"

\* C11: a run makes one warm-up call of conj_grad and niter timed calls on
\* every thread: in the warm-up (it = 0) a thread has made at most one call,
\* in timed iteration it it has made it calls before and it + 1 calls after
\* entering conj_grad, and at the end of the region it has made niter + 1.
C11_CallsPerRun ==
  \A t \in Threads :
    /\ calls[t] <= niter + 1
    /\ it[t] = 0 => calls[t] <= 1
    /\ pc[t] \in {"dp_norm_w", "dr_nt0_w"} => calls[t] = 1
    /\ it[t] >= 1 => calls[t] \in {it[t], it[t] + 1}
    /\ pc[t] \in {"end", "joined"} => calls[t] = niter + 1 /\ it[t] = niter + 1

C11_Witness == AllJoined /\ \A t \in Threads : calls[t] = niter + 1

WarmupDone(t) == calls[t] >= 2 \/ (calls[t] = 1 /\ ~InsideCall(t))

\* C12: the timer T_BENCH runs only after the warm-up call of conj_grad has
\* completed on every thread.
C12_TimerAfterWarmup == tbench = "running" => \A t \in Threads : WarmupDone(t)

\* C13: when a thread calls conj_grad at the start of the warm-up phase or of
\* the timed phase, every x[j] with j < na is 1 and zeta is 0; at a later call
\* of the phase x is the normalised z of the preceding call, not ones.
C13_PhaseStart ==
  \A t \in Threads :
    AtCall(t) =>
      IF calls[t] <= 1
      THEN /\ \A j \in Rows : x[j].v = "ones"
           /\ zeta.it = 0
      ELSE \A j \in Rows : x[j].v = "norm" /\ x[j].of = calls[t]

C13_Witness ==
  \E t \in Threads :
    /\ AtCall(t)
    /\ calls[t] = 2
    /\ zeta.it = 1
    /\ \A j \in Rows : x[j].v = "norm"

\* the iterate passed to the solve of timed iteration k
Iterate(k) == IF k = 1 THEN [v |-> "ones", of |-> 0] ELSE [v |-> "norm", of |-> k]

\* C14: the zeta of timed iteration k is computed from norm_temp1 = x.z with
\* one product per j, x[j] being the iterate passed to the solve of iteration
\* k and z[j] the result of that solve; at the end of the run zeta is the one
\* of iteration niter and x is the normalised z of the last solve.
C14_ZetaFromIterate ==
  /\ zeta.it >= 1 =>
       \A j \in Rows : zeta.by[j] = <<[x |-> Iterate(zeta.it), z |-> cgitmax]>>
  /\ AllJoined =>
       /\ zeta.it = niter
       /\ \A j \in Rows : x[j] = [v |-> "norm", of |-> niter + 1]

C14_Witness == AllJoined /\ zeta.it = niter /\ niter >= 2

\* C15: no step of the driver loop or of conj_grad changes an element of a,
\* colidx or rowstr.
C15_MatrixFrozen == [][a' = a /\ colidx' = colidx /\ rowstr' = rowstr]_vars

C15_Witness == AllJoined /\ impl = "omp" /\ rowstr[na] > na

\* what a call of conj_grad hands back: z, the residual sum, and the
\* operands of the alpha and beta of the last update of z and p
ResultOfCall ==
  [z |-> [j \in Rows |-> z[j]],
   rnorm |-> rnorm,
   alpha |-> {alpha[u] : u \in Threads},
   beta |-> {beta[u] : u \in Threads}]

\* the result as the statements of conj_grad define it from the matrix and x
ResultBySource ==
  [z |-> [j \in Rows |-> cgitmax],
   rnorm |-> AllTerms,
   alpha |-> {<<[rho0 |-> AllTerms, d |-> AllTerms]>>},
   beta |-> {<<[rho |-> AllTerms, rho0 |-> AllTerms]>>}]

\* C16: the result of conj_grad is a function of the matrix and of x at call
\* time only: every call returns the result its statements define from them,
\* whatever the static scalars and z, p, q, r held before the call.
C16_ResultDetermined ==
  (\E t \in Threads : mode[t] = "run" /\ pc[t] \in ReturnPcs)
    => ResultOfCall = ResultBySource

\* ------------------------------------------------------------------ main
\* the longest argument list
MaxArgs == 3

ArgTokens == {"S", "s", "X", "0", "-1", "abc", "2", "-t"}

ArgLists == UNION {[1..n -> ArgTokens] : n \in 0..MaxArgs}

\* argv[k][0]
FirstChar(tok) ==
  CASE tok \in {"-1", "-t"} -> "-"
    [] tok = "abc" -> "a"
    [] OTHER -> tok

\* argv[k][1]
SecondChar(tok) ==
  CASE tok = "-t" -> "t"
    [] tok = "-1" -> "1"
    [] tok = "abc" -> "b"
    [] OTHER -> ""

\* atoi
Atoi(tok) ==
  CASE tok = "2" -> 2
    [] tok = "-1" -> -1
    [] OTHER -> 0

\* the case labels of getProblemConfig
RefClasses == {"S", "s", "W", "w", "A", "a", "B", "b", "C", "c", "D", "d", "E", "e"}

\* the case labels of the switch in CG/main.cpp
PortClasses == {"S", "W", "A", "B", "C", "D", "E"}

\* npb::utils::get_num_threads(): environment or hardware, at least 1
DefaultThreads == num_threads

regionvars == <<thrvars, vecvars, redvars, drvvars, acc, calls, tbench>>

\* an unknown class that is let through
ClassOutcomeLenient(known) == "alloc"

\* default: of the class switch ends the process
ClassOutcome(known) == IF known THEN "alloc" ELSE "exited"

\* a verification failure that becomes the exit status
ExitAfterReportStrict(ok) == IF ok THEN 0 ELSE 1

\* return 0 at the end of main
ExitAfterReport(ok) == 0

Exit(code, msgs) ==
  /\ status' = code
  /\ mout' = mout \cup msgs
  /\ mpc' = "exited"

\* main of NPB-OMP/CG/cg.cpp up to getProblemConfig
MainArgsRef ==
  /\ mpc = "args"
  /\ impl = "omp"
  /\ IF Len(argv) + 1 # 3
     THEN Exit(1, {"Usage"}) /\ nthreads' = nthreads
     ELSE IF Atoi(argv[2]) <= 0
          THEN Exit(1, {"Number of threads must be positive"}) /\ nthreads' = nthreads
          ELSE /\ nthreads' = Atoi(argv[2])
               /\ mpc' = ClassOutcome(FirstChar(argv[1]) \in RefClasses)
               /\ status' = IF mpc' = "exited" THEN 1 ELSE status
               /\ mout' = IF mpc' = "exited" THEN mout \cup {"Unknown class"} ELSE mout
  /\ UNCHANGED <<libvars, makeavars, impl, regionvars, argv, mlog, verified>>

RECURSIVE PortFlags(_, _, _)
\* for (i = 1; i < argc; i++) if (argv[i][0] == '-') ...: the -t option
PortFlags(k, cnt, out) ==
  IF k > Len(argv)
  THEN [nt |-> cnt, out |-> out]
  ELSE IF FirstChar(argv[k]) = "-" /\ SecondChar(argv[k]) = "t" /\ k + 1 <= Len(argv)
       THEN IF Atoi(argv[k + 1]) <= 0
            THEN PortFlags(k + 2, DefaultThreads, out \cup {"Invalid thread count"})
            ELSE PortFlags(k + 2, Atoi(argv[k + 1]), out)
       ELSE PortFlags(k + 1, cnt, out)

\* the positional thread count of CG/main.cpp
PortPositional ==
  IF Len(argv) >= 2
  THEN IF Atoi(argv[2]) <= 0
       THEN [nt |-> DefaultThreads, out |-> {"Invalid thread count"}]
       ELSE [nt |-> Atoi(argv[2]), out |-> {}]
  ELSE [nt |-> DefaultThreads, out |-> {}]

\* main of CG/main.cpp up to the class switch
MainArgsPort ==
  /\ mpc = "args"
  /\ impl = "port"
  /\ LET cls == IF Len(argv) >= 1 THEN FirstChar(argv[1]) ELSE "A"
         pos == PortPositional
         opt == PortFlags(1, pos.nt, pos.out)
     IN /\ nthreads' = opt.nt
        /\ mpc' = ClassOutcome(cls \in PortClasses)
        /\ status' = IF mpc' = "exited" THEN 1 ELSE status
        /\ mout' = mout \cup opt.out
                     \cup (IF mpc' = "exited" THEN {"Invalid problem class"} ELSE {})
  /\ UNCHANGED <<libvars, makeavars, impl, regionvars, argv, mlog, verified>>

\* malloc of the arrays / resize of the vectors
MainAlloc ==
  /\ mpc = "alloc"
  /\ mlog' = Append(mlog, "alloc")
  /\ \E ok \in BOOLEAN :
       IF ok
       THEN mpc' = "makea" /\ UNCHANGED <<status, mout>>
       ELSE IF impl = "omp"
            THEN Exit(1, {"Memory allocation failed"})
            ELSE Exit(134, {"terminate"})
  /\ UNCHANGED <<libvars, makeavars, impl, regionvars, argv, nthreads, verified>>

\* makea / make_matrix; sparse ends the process when the arrays are too small
MainMakea ==
  /\ mpc = "makea"
  /\ mlog' = Append(mlog, "makea")
  /\ \E fits \in BOOLEAN :
       IF fits
       THEN mpc' = "bench" /\ UNCHANGED <<status, mout>>
       ELSE IF impl = "omp"
            THEN Exit(1, {"Space for matrix elements exceeded in sparse"})
            ELSE Exit(134, {"terminate"})
  /\ UNCHANGED <<libvars, makeavars, impl, regionvars, argv, nthreads, verified>>

\* the parallel region: warm-up and timed iterations
MainBench ==
  /\ mpc = "bench"
  /\ mlog' = Append(mlog, "bench")
  /\ mout' = mout \cup {"iteration"}
  /\ mpc' = "verify"
  /\ UNCHANGED <<libvars, makeavars, impl, regionvars, argv, nthreads, status, verified>>

\* err <= epsilon, for any zeta the run produced
MainVerify ==
  /\ mpc = "verify"
  /\ mlog' = Append(mlog, "verify")
  /\ \E ok \in BOOLEAN :
       /\ verified' = ok
       /\ mout' = mout \cup {"Benchmark completed",
                             IF ok THEN "VERIFICATION SUCCESSFUL" ELSE "VERIFICATION FAILED"}
  /\ mpc' = "report"
  /\ UNCHANGED <<libvars, makeavars, impl, regionvars, argv, nthreads, status>>

\* c_print_results / print_results, then return 0
MainReport ==
  /\ mpc = "report"
  /\ mlog' = Append(mlog, "report")
  /\ Exit(ExitAfterReport(verified), {"results"})
  /\ UNCHANGED <<libvars, makeavars, impl, regionvars, argv, nthreads, verified>>

InitMain ==
  /\ LibIdle
  /\ nz = NZ
  /\ stage = "main"
  /\ MakeaFresh
  /\ impl \in {"omp", "port"}
  /\ RegionIdle
  /\ argv \in ArgLists
  /\ mpc = "args"
  /\ nthreads = 0
  /\ status = -1
  /\ mout = {}
  /\ mlog = <<>>
  /\ verified = FALSE

NextMain ==
  \/ MainArgsRef
  \/ MainArgsPort
  \/ MainAlloc
  \/ MainMakea
  \/ MainBench
  \/ MainVerify
  \/ MainReport

SpecMain == InitMain /\ [][NextMain]_vars

\* ------------------------------------------------------------ claims on main
Performed == {mlog[k] : k \in DOMAIN mlog}

\* the process ended with a nonzero status before it allocated anything
FailedFast == mpc = "exited" /\ status > 0 /\ mlog = <<>>

\* the positional thread count is given and is not a positive integer
ThreadArgInvalid == Len(argv) >= 2 /\ argv[2] # "-t" /\ Atoi(argv[2]) <= 0

\* C17: a thread-count argument that is zero, negative or not a number makes
\* the program print an error and exit with a nonzero status without running
\* the benchmark.
C17_BadThreadCountExits == ThreadArgInvalid /\ mpc # "args" => FailedFast

ClassArgInvalid == Len(argv) >= 1 /\ FirstChar(argv[1]) \notin PortClasses

\* C18 as stated: a class argument whose first character is not one of
\* S, W, A, B, C, D, E ends the program with a nonzero status before any
\* allocation, matrix generation or solver step.
C18_UnknownClassExits == ClassArgInvalid /\ mpc # "args" => FailedFast

\* the class letters an implementation accepts
Accepted == IF impl = "omp" THEN PortClasses \cup {"s", "w", "a", "b", "c", "d", "e"} ELSE PortClasses

\* C18, amended: a class argument whose first character is not one of
\* S, W, A, B, C, D, E and, in NPB-OMP, not one of s, w, a, b, c, d, e either,
\* ends the program with a nonzero status before any allocation, matrix
\* generation or solver step; NPB-OMP runs the class of a lower-case letter.
C18_UnacceptedClassExits ==
  /\ Len(argv) >= 1 /\ FirstChar(argv[1]) \notin Accepted /\ mpc # "args" => FailedFast
  /\ impl = "omp" /\ Len(argv) = 2 /\ argv[1] = "s" /\ Atoi(argv[2]) > 0 /\ mpc # "args"
       => mpc # "exited" \/ "alloc" \in Performed

C18_Witness ==
  /\ FailedFast
  /\ Len(argv) = 2
  /\ argv[1] = "X"
  /\ Atoi(argv[2]) > 0
  /\ mout \cap {"Unknown class", "Invalid problem class"} # {}

\* C19: a run that has completed the timed phase prints the report and ends
\* with exit status 0, with a successful and with a failed verification
\* alike; after the timed phase the status is never nonzero.
C19_ExitZeroAfterRun ==
  "bench" \in Performed =>
    /\ status \in {-1, 0}
    /\ mpc = "exited" =>
         /\ status = 0
         /\ "results" \in mout
         /\ (IF verified THEN "VERIFICATION SUCCESSFUL" ELSE "VERIFICATION FAILED") \in mout

C19_Witness ==
  /\ mpc = "exited"
  /\ "bench" \in Performed
  /\ ~verified
  /\ "VERIFICATION FAILED" \in mout
  /\ status = 0

\* ------------------------------------------------ generation and thread count
\* a run that has parsed its arguments and set a thread count of 1..num_threads
\* (omp_set_num_threads before makea in NPB-OMP, Problem::num_threads in the
\* port), about to generate the matrix
InitThreads ==
  /\ LibIdle
  /\ nz = NZ
  /\ stage = "sprnvc"
  /\ MakeaFresh
  /\ impl \in {"omp", "port"}
  /\ RegionIdle
  /\ argv = <<>>
  /\ mpc = "makea"
  /\ nthreads \in 1..num_threads
  /\ status = -1
  /\ mout = {}
  /\ mlog = <<>>
  /\ verified = FALSE

SpecThreads == InitThreads /\ [][Next]_vars

\* the columns of row j of the matrix the row patterns define
ColsOfRow(j) == {c \in Rows : Contributors(j, c) # {}}

\* the number of entries of the rows before j
StartOfRow(j) == SumOver([rw \in Rows |-> Cardinality(ColsOfRow(rw))], 0..(j - 1))

\* the n-th smallest element of S, counted from 0
NthOf(S, n) == CHOOSE c \in S : Cardinality({e \in S : e < c}) = n

T23 == Pow(2, HalfBits)
T46 == T23 * T23

\* a double has 53 significand bits, 7 more than the 46 of the stream state;
\* an int has 32 bits, 9 more than a half
MantBits == 2 * HalfBits + 7
IntBits == HalfBits + 9

RECURSIVE BitLen(_)
BitLen(val) == IF val = 0 THEN 0 ELSE 1 + BitLen(val \div 2)

Abs(val) == IF val < 0 THEN -val ELSE val

\* an integer as a double holds it: the magnitude rounded to MantBits
\* significant bits, ties to even
Fl(val) ==
  IF BitLen(Abs(val)) <= MantBits
  THEN val
  ELSE LET unit == Pow(2, BitLen(Abs(val)) - MantBits)
           quo == Abs(val) \div unit
           rem == Abs(val) % unit
           up == 2 * rem > unit \/ (2 * rem = unit /\ quo % 2 = 1)
           mag == (IF up THEN quo + 1 ELSE quo) * unit
       IN IF val < 0 THEN -mag ELSE mag

\* num / den with the fraction discarded
Trunc(num, den) == IF num < 0 THEN -((-num) \div den) ELSE num \div den

\* a cast that rounds to the nearest integer
CastIntNearest(num, den) == {Trunc(2 * num + den, 2 * den)}

\* static_cast<int>(num / den): truncation when the value fits an int, any
\* int when it does not
CastInt(num, den) ==
  IF Abs(Trunc(num, den)) < Pow(2, IntBits - 1)
  THEN {Trunc(num, den)}
  ELSE -Pow(2, IntBits - 1)..(Pow(2, IntBits - 1) - 1)

\* the outcomes of randlc(&xs, am): the new *x and the value returned, the
\* latter in units of r46
randlc(xs, am) ==
  {[x |-> x46, ret |-> x46] :
     x46 \in UNION {
       LET a1 == j1
           a2 == Fl(am - Fl(T23 * a1))
           x1 == j2
           x2 == Fl(xs - Fl(T23 * x1))
           t1 == Fl(Fl(a1 * x2) + Fl(a2 * x1))
       IN UNION {
            LET t2 == j3
                zz == Fl(t1 - Fl(T23 * t2))
                t3 == Fl(Fl(T23 * zz) + Fl(a2 * x2))
            IN {Fl(t3 - Fl(T46 * t4)) : t4 \in CastInt(t3, T46)}
            : j3 \in CastInt(t1, T23)}
       : j1 \in CastInt(am, T23), j2 \in CastInt(xs, T23)}}

\* the CG run is not part of this specification
NpbIdle ==
  /\ nz = NZ
  /\ stage = "lib"
  /\ MakeaFresh
  /\ RegionIdle
  /\ MainIdle

\* a call randlc(&tran, amult)
RandlcCall ==
  /\ \E o \in randlc(tran, amult) :
       /\ tran' = o.x
       /\ rout' = o.ret
  /\ UNCHANGED <<npbvars, repvars, echovars, cmpvars, sizevars, pcvars, amult>>

\* randlc for any state and any multiplier below 2^(2 * HalfBits)
InitRandlc ==
  /\ NpbIdle
  /\ impl = "port"
  /\ RepIdle
  /\ EchoIdle
  /\ CmpIdle
  /\ SizeIdle
  /\ PcIdle
  /\ tran \in 0..(T46 - 1)
  /\ amult \in 0..(T46 - 1)
  /\ rout = -1

NextRandlc == RandlcCall

SpecRandlc == InitRandlc /\ [][NextRandlc]_vars

\* C21: a call of randlc sets the state to (a * x) mod 2^(2 * HalfBits),
\* computed through the halves a1, a2, x1, x2 and z, and returns the new state
\* times r46, a value in [0, 1).
C21_RandlcIsModularProduct ==
  [][/\ tran' = (amult * tran) % T46
     /\ rout' = tran'
     /\ 0 <= rout' /\ rout' < T46]_vars

\* a call in which both halves of both operands are nonzero and the product
\* exceeds the modulus
C21_Witness ==
  /\ rout >= 0
  /\ amult \div T23 > 0 /\ amult % T23 > 0
  /\ rout % T23 > 0 /\ rout \div T23 > 0
  /\ amult * amult >= T46

\* ---------------------------------------------------- vecset on its own
\* the first cnt indices are pairwise distinct
Distinct(ivec, cnt) ==
  \A k1 \in 0..(cnt - 1), k2 \in 0..(cnt - 1) : ivec[k1] = ivec[k2] => k1 = k2

\* vecset(n, v, iv, &nzv, iouter + 1, 0.5) as makea calls it: buffers of
\* spnz + 1 elements that hold a pattern of at most spnz pairwise distinct
\* indices of 1..spn, and above it the indices and one value an earlier row
\* left
InitVecset ==
  /\ LibIdle
  /\ nz = NZ
  /\ stage = "vecset"
  /\ impl \in {"omp", "port"}
  /\ RegionIdle
  /\ MainIdle
  /\ spn \in 1..MaxSprnvcN
  /\ spnz \in 0..spn
  /\ iouter \in 0..(spn - 1)
  /\ nzv \in 0..spnz
  /\ iv \in [0..spnz -> 0..spn]
  /\ \A k \in 0..(nzv - 1) : iv[k] >= 1
  /\ Distinct(iv, nzv)
  /\ v \in [0..spnz -> VecElts]
  /\ \A k \in (nzv + 1)..spnz : v[k] = v[nzv]
  /\ vecelt = 0
  /\ vecloc = 0
  /\ arow = [rw \in Rows |-> 0]
  /\ acol = [rw \in Rows |-> ZeroVec]
  /\ aelt = [rw \in Rows |-> ZeroVec]
  /\ a = [k \in 0..(nz - 1) |-> 0]
  /\ colidx = [k \in 0..(nz - 1) |-> 0]
  /\ rowstr = [j \in 0..na |-> 0]
  /\ nzloc = [j \in Rows |-> 0]
  /\ i = 0
  /\ nza = 0
  /\ nzrow = 0
  /\ size = 1

\* the call of vecset / vector_set
VecsetCall ==
  /\ stage = "vecset"
  /\ LET s == IF impl = "omp"
              THEN VecSet(v, iv, nzv, iouter + 1, Half)
              ELSE VectorSet(v, iv, nzv, iouter + 1, Half)
     IN /\ v' = s.v
        /\ iv' = s.iv
        /\ nzv' = s.nzv
  /\ stage' = "vecset_done"
  /\ UNCHANGED <<nz, spn, spnz, iouter, vecelt, vecloc, patvars, matvars, loopvars, cgvars>>

NextVecset == VecsetCall

SpecVecset == InitVecset /\ [][NextVecset]_vars

\* C22: vecset(i, val) on a pattern of pairwise distinct indices: when i is
\* present its value becomes val and the count stays; otherwise (i, val) is
\* appended and the count grows by one; every other pair is unchanged, the
\* indices stay pairwise distinct, i occurs exactly once and the count does
\* not exceed nonzer + 1.
C22_VecsetContract ==
  [][LET present == \E k \in 0..(nzv - 1) : iv[k] = iouter + 1 IN
       /\ present =>
            /\ nzv' = nzv
            /\ \A k \in 0..(nzv - 1) : iv[k] = iouter + 1 => v'[k] = Half
       /\ ~present =>
            /\ nzv' = nzv + 1
            /\ iv'[nzv] = iouter + 1
            /\ v'[nzv] = Half
       /\ \A k \in 0..(nzv - 1) :
            /\ iv'[k] = iv[k]
            /\ iv[k] # iouter + 1 => v'[k] = v[k]
       /\ Distinct(iv', nzv')
       /\ Cardinality({k \in 0..(nzv' - 1) : iv'[k] = iouter + 1}) = 1
       /\ nzv' <= spnz + 1]_vars

\* a call that overwrote the value of an index in the middle of a pattern of
\* three, with the same index left over above the count
C22_Witness ==
  /\ stage = "vecset_done"
  /\ nzv = 3
  /\ spnz = 3
  /\ iv[1] = iouter + 1
  /\ v[1] = Half
  /\ iv[3] = iouter + 1
  /\ v[3] # Half

\* ---------------------------------------------------------- class presets
Classes == {"S", "W", "A", "B", "C", "D", "E"}

\* getProblemConfig / the switch of CG/main.cpp
Preset(cls) ==
  CASE cls = "S" -> [na |-> 1400, nonzer |-> 7, niter |-> 15, shift |-> 10]
    [] cls = "W" -> [na |-> 7000, nonzer |-> 8, niter |-> 15, shift |-> 12]
    [] cls = "A" -> [na |-> 14000, nonzer |-> 11, niter |-> 15, shift |-> 20]
    [] cls = "B" -> [na |-> 75000, nonzer |-> 13, niter |-> 75, shift |-> 60]
    [] cls = "C" -> [na |-> 150000, nonzer |-> 15, niter |-> 75, shift |-> 110]
    [] cls = "D" -> [na |-> 1500000, nonzer |-> 21, niter |-> 100, shift |-> 500]
    [] cls = "E" -> [na |-> 9000000, nonzer |-> 26, niter |-> 100, shift |-> 1500]

\* ------------------------------------------------------------- throughput
\* a throughput computed without looking at the elapsed time
TimeIsZeroNever(tt) == FALSE

\* if (t != 0.0) ... else mflops = 0.0 / if (execution_time == 0.0) return 0.0
TimeIsZero(tt) == tt = 0

\* the mflops expression for elapsed time tt > 0, tt in microseconds:
\* (2.0 * niter * na) * (3.0 + nonzer * (nonzer + 1)
\*   + 25.0 * (5.0 + nonzer * (nonzer + 1)) + 3.0) / t / 1000000.0,
\* the two factors of the product kept apart
MflopsOf(cls, tt) ==
  LET cfg == Preset(cls)
      nn == cfg.nonzer * (cfg.nonzer + 1)
  IN [count |-> 2 * cfg.niter * cfg.na,
      per |-> 3 + nn + 25 * (5 + nn) + 3,
      den |-> tt]

\* the computation of mflops at the end of main / get_mflops
ComputeMflops ==
  /\ mflops = NoMflops
  /\ stage = "report"
  /\ mflops' = IF TimeIsZero(elapsed)
               THEN [count |-> 0, per |-> 0, den |-> 1]
               ELSE MflopsOf(class_npb, elapsed)
  /\ UNCHANGED <<npbvars, rngvars, echovars, cmpvars, sizevars, pcvars, class_npb, elapsed>>

\* a run of any class that took any time of 0..MaxElapsed microseconds
InitMflops ==
  /\ nz = NZ
  /\ stage = "report"
  /\ MakeaFresh
  /\ RegionIdle
  /\ MainIdle
  /\ RngIdle
  /\ EchoIdle
  /\ CmpIdle
  /\ SizeIdle
  /\ PcIdle
  /\ impl \in {"omp", "port"}
  /\ class_npb \in Classes
  /\ elapsed \in 0..MaxElapsed
  /\ mflops = NoMflops

NextMflops == ComputeMflops

SpecMflops == InitMflops /\ [][NextMflops]_vars

\* C23: the throughput reported is exactly 0 when the elapsed time is 0, and
\* for an elapsed time t > 0 it is the non-negative value
\* 2*niter*na*(3 + nonzer*(nonzer+1) + 25*(5 + nonzer*(nonzer+1)) + 3) / t / 10^6
\* of the class (t in seconds, elapsed in microseconds); no division by zero
\* takes place.
C23_ThroughputDefined ==
  mflops # NoMflops =>
    /\ mflops.den > 0
    /\ mflops.count >= 0 /\ mflops.per >= 0
    /\ elapsed = 0 => mflops.count * mflops.per = 0
    /\ elapsed > 0 =>
         LET nn == Preset(class_npb).nonzer * (Preset(class_npb).nonzer + 1) IN
           /\ mflops.count = 2 * Preset(class_npb).niter * Preset(class_npb).na
           /\ mflops.per = 3 + nn + 25 * (5 + nn) + 3
           /\ mflops.den = elapsed

\* the throughput of a class E run of the reference that took some time
C23_Witness ==
  /\ mflops # NoMflops
  /\ class_npb = "E"
  /\ impl = "omp"
  /\ elapsed > 0
  /\ mflops.count > 0

\* -------------------------------------------------------------- echo server
\* EchoServer::run: accept, then the test of current_connections; the handler
\* thread is started detached and has not run yet
Accept(c) ==
  /\ srv = "threaded"
  /\ conn[c] = "new"
  /\ conn' = [conn EXCEPT ![c] =
                IF current_connections >= max_connections THEN "rejected" ELSE "spawned"]
  /\ UNCHANGED <<npbvars, rngvars, repvars, cmpvars, sizevars, pcvars, srv, current_connections>>

\* EchoServer::handle_client up to the receive loop:
\* current_connections.fetch_add(1)
HandlerStart(c) ==
  /\ srv = "threaded"
  /\ conn[c] = "spawned"
  /\ conn' = [conn EXCEPT ![c] = "serving"]
  /\ current_connections' = current_connections + 1
  /\ UNCHANGED <<npbvars, rngvars, repvars, cmpvars, sizevars, pcvars, srv>>

\* EchoServer::handle_client after the receive loop:
\* current_connections.fetch_sub(1), close
HandlerEnd(c) ==
  /\ srv = "threaded"
  /\ conn[c] = "serving"
  /\ conn' = [conn EXCEPT ![c] = "closed"]
  /\ current_connections' = current_connections - 1
  /\ UNCHANGED <<npbvars, rngvars, repvars, cmpvars, sizevars, pcvars, srv>>

\* AsyncEchoServer::run_async, an event of the listening socket: accept, the
\* test, and current_connections.fetch_add(1) in the one thread of the loop
AsyncAccept(c) ==
  /\ srv = "async"
  /\ conn[c] = "new"
  /\ IF current_connections >= max_connections
     THEN /\ conn' = [conn EXCEPT ![c] = "rejected"]
          /\ UNCHANGED current_connections
     ELSE /\ conn' = [conn EXCEPT ![c] = "serving"]
          /\ current_connections' = current_connections + 1
  /\ UNCHANGED <<npbvars, rngvars, repvars, cmpvars, sizevars, pcvars, srv>>

\* AsyncEchoServer::run_async, an event of a client socket that ends the
\* connection: disconnect_client
AsyncDisconnect(c) ==
  /\ srv = "async"
  /\ conn[c] = "serving"
  /\ conn' = [conn EXCEPT ![c] = "closed"]
  /\ current_connections' = current_connections - 1
  /\ UNCHANGED <<npbvars, rngvars, repvars, cmpvars, sizevars, pcvars, srv>>

InitEcho ==
  /\ NpbIdle
  /\ impl = "port"
  /\ RngIdle
  /\ RepIdle
  /\ CmpIdle
  /\ SizeIdle
  /\ PcIdle
  /\ srv \in {"threaded", "async"}
  /\ conn = [c \in Clients |-> "new"]
  /\ current_connections = 0

NextEcho ==
  \/ \E c \in Clients : Accept(c)
  \/ \E c \in Clients : HandlerStart(c)
  \/ \E c \in Clients : HandlerEnd(c)
  \/ \E c \in Clients : AsyncAccept(c)
  \/ \E c \in Clients : AsyncDisconnect(c)

SpecEcho == InitEcho /\ [][NextEcho]_vars

\* the connections being served
Served == {c \in Clients : conn[c] = "serving"}

\* C24: the number of connections served at the same time never exceeds
\* max_connections.
C24_ConnectionLimit == Cardinality(Served) <= max_connections

\* ------------------------------------- matrices generated from the stream
\* the seed and the multiplier of the stream, reduced to the width of randlc
Seed == 314159265 % T46
Amult == 1220703125 % T46

\* the seeds of the reduced stream: the odd values below 2^(2 * HalfBits)
Seeds == {sd \in 0..(T46 - 1) : sd % 2 = Seed % 2}

\* the sources that generate the matrix: NPB-OMP/CG/cg.cpp,
\* master_t_parallel_c/CG/cg.cpp and master_t_parallel_c/cg.cpp
Ports == {"port", "seq"}

\* nn1 of make_matrix: nn1 = 1; while (nn1 < na) nn1 *= 2
RECURSIVE Nn1While(_, _)
Nn1While(m, n) == IF m < n THEN Nn1While(2 * m, n) ELSE m

\* nn1 as the source im computes it
Nn1Of(im, n) == IF im = "omp" THEN Nn1(n) ELSE Nn1While(1, n)

\* icnvrt / convert_real_to_int of a value given in units of r46
convert_real_to_int(xr, ipwr2) == (ipwr2 * xr) \div T46

\* whether the source im consumes one draw before the first row pattern
InitialDraw(im) == im \in {"omp", "port"}

\* vecset / vector_set as the source im defines it
VecSetOf(im, vec, ivec, cnt, idx, val) ==
  IF im = "omp" THEN VecSet(vec, ivec, cnt, idx, val)
  ELSE VectorSet(vec, ivec, cnt, idx, val)

\* the generator state at the start of a construction
GenReset ==
  /\ iouter' = 0
  /\ nzv' = 0
  /\ v' = ZeroVec
  /\ iv' = ZeroVec
  /\ vecelt' = 0
  /\ vecloc' = 0
  /\ arow' = [rw \in Rows |-> 0]
  /\ acol' = [rw \in Rows |-> ZeroVec]
  /\ aelt' = [rw \in Rows |-> ZeroVec]

\* a process of the source im starts: tran and amult get their initial values
ProcessStart(im) ==
  /\ \/ stage = "start" /\ im = "omp"
     \/ stage = "built"
  /\ Len(built) < MaxBuilt
  /\ impl' = im
  /\ tran' = seed
  /\ amult' = Amult
  /\ rout' = -1
  /\ nth' = 0
  /\ stage' = "construct"
  /\ GenReset
  /\ UNCHANGED <<nz, spn, spnz, matvars, loopvars, regionvars, mainvars,
                 repvars, echovars, sizevars, pcvars, seed, built>>

\* the matrix is constructed once more in the running process
Reconstruct ==
  /\ stage = "built"
  /\ impl \in Ports
  /\ nth < 2
  /\ Len(built) < MaxBuilt
  /\ stage' = "construct"
  /\ GenReset
  /\ UNCHANGED <<nz, spn, spnz, matvars, loopvars, impl, regionvars, mainvars,
                 rngvars, repvars, echovars, sizevars, pcvars, cmpvars>>

\* the construction begins: the draw before the first row pattern
ConstructBegin ==
  /\ stage = "construct"
  /\ nth' = nth + 1
  /\ stage' = "gen"
  /\ IF InitialDraw(impl)
     THEN \E o \in randlc(tran, amult) :
            /\ tran' = o.x
            /\ rout' = o.ret
     ELSE UNCHANGED <<tran, rout>>
  /\ UNCHANGED <<nz, genvars, patvars, matvars, loopvars, impl, regionvars,
                 mainvars, amult, repvars, echovars, sizevars, pcvars, seed, built>>

\* one iteration of while (nzv < nz) in sprnvc / generate_sparse_vector:
\* vecelt is drawn first, then vecloc
GenAttempt ==
  /\ stage = "gen"
  /\ nzv < spnz
  /\ \E o1 \in randlc(tran, amult) :
       \E o2 \in randlc(o1.x, amult) :
         LET idx == convert_real_to_int(o2.ret, Nn1Of(impl, spn)) + 1 IN
           /\ vecelt' = o1.ret
           /\ vecloc' = o2.ret
           /\ tran' = o2.x
           /\ rout' = o2.ret
           /\ IF Rejected(iv, nzv, idx, spn)
              THEN UNCHANGED <<v, iv, nzv>>
              ELSE /\ v' = [v EXCEPT ![nzv] = o1.ret]
                   /\ iv' = [iv EXCEPT ![nzv] = idx]
                   /\ nzv' = nzv + 1
  /\ UNCHANGED <<stage, nz, spn, spnz, iouter, patvars, matvars, loopvars,
                 impl, regionvars, mainvars, amult, repvars, echovars, sizevars, pcvars, cmpvars>>

\* the row patterns of the construction that is running
Pattern(rowcnt, cols, elts) ==
  [impl |-> impl, nth |-> nth, arow |-> rowcnt, acol |-> cols, aelt |-> elts]

\* the rest of the body of the loop over iouter: the diagonal element is set
\* and the row pattern is stored
GenRow ==
  /\ stage = "gen"
  /\ nzv >= spnz
  /\ LET s == VecSetOf(impl, v, iv, nzv, iouter + 1, T46 \div 2)
         rowcnt == [arow EXCEPT ![iouter] = s.nzv]
         cols == [acol EXCEPT ![iouter] =
                    [m \in PatIdx |-> IF m < s.nzv THEN s.iv[m] - 1 ELSE @[m]]]
         elts == [aelt EXCEPT ![iouter] =
                    [m \in PatIdx |-> IF m < s.nzv THEN s.v[m] ELSE @[m]]]
     IN /\ arow' = rowcnt
        /\ acol' = cols
        /\ aelt' = elts
        /\ IF impl = "omp"
           THEN /\ v' = s.v
                /\ iv' = s.iv
           ELSE /\ v' = ZeroVec
                /\ iv' = ZeroVec
        /\ nzv' = 0
        /\ iouter' = iouter + 1
        /\ IF iouter + 1 < spn
           THEN UNCHANGED <<stage, built>>
           ELSE /\ stage' = "built"
                /\ built' = Append(built, Pattern(rowcnt, cols, elts))
  /\ UNCHANGED <<nz, spn, spnz, vecelt, vecloc, matvars, loopvars, impl,
                 regionvars, mainvars, rngvars, repvars, echovars, sizevars, pcvars, seed, nth>>

\* the reference generates its matrix first; the ports follow
InitBuilt ==
  /\ nz = NZ
  /\ stage = "start"
  /\ MakeaFresh
  /\ RegionIdle
  /\ MainIdle
  /\ impl = "omp"
  /\ RngIdle
  /\ RepIdle
  /\ EchoIdle
  /\ SizeIdle
  /\ PcIdle
  /\ seed \in Seeds
  /\ built = <<>>
  /\ nth = 0

NextBuilt ==
  \/ \E im \in {"omp"} \cup Ports : ProcessStart(im)
  \/ Reconstruct
  \/ ConstructBegin
  \/ GenAttempt
  \/ GenRow

SpecBuilt == InitBuilt /\ [][NextBuilt]_vars

\* the row patterns a construction recorded
PatOf(b) == <<b.arow, b.acol, b.aelt>>

\* C25: the first matrix each port constructs in a process has the row
\* patterns of the matrix the reference constructs.
C25_PortsMatchReference ==
  \A k \in DOMAIN built :
    built[k].nth = 1 => PatOf(built[k]) = PatOf(built[1])

\* C27: a second construction in the same process yields the row patterns of
\* the first.
C27_SecondConstructionEqual ==
  \A k \in DOMAIN built :
    built[k].nth = 2 => PatOf(built[k]) = PatOf(built[k - 1])

\* ------------------------------------------------- the sizes of the buffers
\* a natural number as its digits in base 1000, the lowest first
RECURSIVE Big(_)
Big(n) == IF n < 1000 THEN <<n>> ELSE <<n % 1000>> \o Big(n \div 1000)

\* bn * k + carry for a factor k <= 1000
RECURSIVE BigMulCarry(_, _, _)
BigMulCarry(bn, k, carry) ==
  IF bn = <<>>
  THEN IF carry = 0 THEN <<>> ELSE Big(carry)
  ELSE <<(Head(bn) * k + carry) % 1000>>
         \o BigMulCarry(Tail(bn), k, (Head(bn) * k + carry) \div 1000)

\* the digits without the zeros at the high end
RECURSIVE BigNorm(_)
BigNorm(bn) ==
  IF Len(bn) > 1 /\ bn[Len(bn)] = 0 THEN BigNorm(SubSeq(bn, 1, Len(bn) - 1))
  ELSE bn

BigMul(bn, k) == BigNorm(BigMulCarry(bn, k, 0))

\* bx <= by for two normalised numbers
RECURSIVE BigLeqFrom(_, _, _)
BigLeqFrom(bx, by, k) ==
  IF k = 0 THEN TRUE
  ELSE IF bx[k] # by[k] THEN bx[k] < by[k]
  ELSE BigLeqFrom(bx, by, k - 1)

BigLeq(bx, by) ==
  IF Len(bx) # Len(by) THEN Len(bx) < Len(by)
  ELSE BigLeqFrom(bx, by, Len(bx))

\* INT_MAX = 2^31 - 1 and INT64_MAX = 2^63 - 1
IntMax == <<647, 483, 147, 2>>
Int64Max == <<807, 775, 854, 36, 372, 223, 9>>

\* the largest value of the integer type the source im sizes its buffers in:
\* int in NPB-OMP, int64_t in the port
TypeMax(im) == IF im = "omp" THEN IntMax ELSE Int64Max

\* sz * k evaluated in the type of im: the product if the type holds it;
\* a signed overflow is undefined and leaves any value of the type, of which
\* the least and the largest non-negative one stand here
MulIn(im, sz, k) ==
  IF ~sz.ok THEN {sz}
  ELSE IF BigLeq(BigMul(sz.val, k), TypeMax(im))
  THEN {[ok |-> TRUE, val |-> BigMul(sz.val, k)]}
  ELSE {[ok |-> FALSE, val |-> w] : w \in {<<0>>, TypeMax(im)}}

\* a value read from the preset
Exact(n) == [ok |-> TRUE, val |-> Big(n)]

\* NZ = na * (nonzer + 1) * (nonzer + 1) and NAZ = na * (nonzer + 1)
SizeBuffers ==
  /\ stage = "size"
  /\ LET ps == Preset(class_npb) IN
       \E t1 \in MulIn(impl, Exact(ps.na), ps.nonzer + 1) :
         \E t2 \in MulIn(impl, t1, ps.nonzer + 1) :
           sizes' = [sizes EXCEPT !.nz = t2, !.naz = t1]
  /\ stage' = "sized"
  /\ UNCHANGED <<nz, genvars, patvars, matvars, loopvars, impl, regionvars,
                 mainvars, rngvars, repvars, echovars, cmpvars, pcvars>>

\* the slot total rowstr[nrows] before the rows are compacted, for patterns
\* of k elements each: every element of a pattern adds the k of its pattern
CountSlots(k) ==
  /\ stage = "sized"
  /\ k \in 1..(Preset(class_npb).nonzer + 1)
  /\ \E t1 \in MulIn(impl, Exact(Preset(class_npb).na), k) :
       \E t2 \in MulIn(impl, t1, k) :
         sizes' = [sizes EXCEPT !.slots = t2]
  /\ stage' = "counted"
  /\ UNCHANGED <<nz, genvars, patvars, matvars, loopvars, impl, regionvars,
                 mainvars, rngvars, repvars, echovars, cmpvars, pcvars>>

\* the largest pattern a row of any class has
MaxFill == Preset("E").nonzer + 1

InitSizes ==
  /\ nz = NZ
  /\ stage = "size"
  /\ MakeaFresh
  /\ RegionIdle
  /\ MainIdle
  /\ impl \in {"omp", "port"}
  /\ RngIdle
  /\ EchoIdle
  /\ CmpIdle
  /\ SizeIdle
  /\ PcIdle
  /\ class_npb \in Classes
  /\ elapsed = 0
  /\ mflops = NoMflops

NextSizes ==
  \/ SizeBuffers
  \/ \E k \in 1..MaxFill : CountSlots(k)

SpecSizes == InitSizes /\ [][NextSizes]_vars

\* C26: for every class the capacity NZ, the row capacity NAZ and the slot
\* total before compaction are computed without overflow, and the slots (and
\* so every index into a and colidx) stay below NZ.
C26_SizesRepresentable ==
  /\ sizes.nz.ok
  /\ sizes.naz.ok
  /\ sizes.slots.ok
  /\ stage = "counted" => BigLeq(sizes.slots.val, sizes.nz.val)

\* ------------------------------------- sprnvc asked for any number of elements
\* sprnvc called with (n, nz, nn1) where nz may exceed n
InitSprnvcAny ==
  /\ nz = NZ
  /\ stage = "sprnvc"
  /\ spn \in 1..MaxSprnvcN
  /\ spnz \in 0..(spn + 1)
  /\ iouter = 0
  /\ nzv = 0
  /\ v = [m \in 0..spnz |-> 0]
  /\ iv = [m \in 0..spnz |-> 0]
  /\ vecelt = 0
  /\ vecloc = 0
  /\ arow = [rw \in Rows |-> 0]
  /\ acol = [rw \in Rows |-> ZeroVec]
  /\ aelt = [rw \in Rows |-> ZeroVec]
  /\ a = [k \in 0..(nz - 1) |-> 0]
  /\ colidx = [k \in 0..(nz - 1) |-> 0]
  /\ rowstr = [j \in 0..na |-> 0]
  /\ nzloc = [j \in Rows |-> 0]
  /\ i = 0
  /\ nza = 0
  /\ nzrow = 0
  /\ size = 1
  /\ CgIdle

NextSprnvcAny ==
  \/ \E loc \in Locs : SprnvcDrawLoc(loc)
  \/ SprnvcReturn

SpecSprnvcAny == InitSprnvcAny /\ [][NextSprnvcAny]_vars

\* a fair stream: while the loop runs every location keeps being drawn, and
\* the loop is left once its condition fails
FairSpecSprnvcAny ==
  /\ SpecSprnvcAny
  /\ \A loc \in Locs : WF_vars(SprnvcDrawLoc(loc))
  /\ WF_vars(SprnvcReturn)

\* the smaller of two numbers
MinOf(m, n) == IF m <= n THEN m ELSE n

\* C28: under a fair stream sprnvc returns if and only if nz <= n; the
\* number of accepted elements never exceeds min(nz, n), so for nz > n the
\* loop never exits.
C28_TerminatesIffFits ==
  /\ (spnz <= spn) ~> (stage = "returned")
  /\ [](spnz > spn => stage # "returned")
  /\ [](nzv <= MinOf(spnz, spn))

\* every index of 1..n has been accepted and the loop still asks for more
C28_Witness ==
  /\ spnz > spn
  /\ spn >= 2
  /\ nzv = spn
  /\ stage = "sprnvc"

\* ------------------------------------------- the producer-consumer benchmarks
\* the state a benchmark leaves alone
nopcvars == <<npbvars, rngvars, repvars, echovars, cmpvars, sizevars>>

\* the parameters of a run
pcparams == <<pcmode, num_producers, num_consumers, items_per_producer>>

\* the j-th item of producer pi
Item(pi, j) == <<pi, j>>

\* channel.send(item) / queue.push(item): the item is appended under the mutex
ProducerSend(pi) ==
  /\ pi \in DOMAIN prod
  /\ prod[pi].pc = "send"
  /\ queue' = Append(queue, Item(pi, prod[pi].j))
  /\ prod' = [prod EXCEPT ![pi].pc = "count"]
  /\ UNCHANGED <<nopcvars, pcparams, produced, consumed, producers_done, cons, bench>>

\* metrics->increment_produced() and the end of the iteration over j
ProducerCount(pi) ==
  /\ pi \in DOMAIN prod
  /\ prod[pi].pc = "count"
  /\ produced' = produced + 1
  /\ prod' = [prod EXCEPT ![pi] =
                [pc |-> IF prod[pi].j + 1 < items_per_producer
                        THEN "send" ELSE "done",
                 j |-> prod[pi].j + 1]]
  /\ UNCHANGED <<nopcvars, pcparams, queue, consumed, producers_done, cons, bench>>

\* channel.try_recv(item) / queue.try_pop(item)
ConsumerTry(ci) ==
  /\ ci \in DOMAIN cons
  /\ cons[ci].pc = "try"
  /\ IF queue = <<>>
     THEN /\ cons' = [cons EXCEPT ![ci].pc = "load_done"]
          /\ UNCHANGED queue
     ELSE /\ queue' = Tail(queue)
          /\ cons' = [cons EXCEPT ![ci].pc = "count",
                                  ![ci].got = @ \cup {Head(queue)}]
  /\ UNCHANGED <<nopcvars, pcparams, produced, consumed, producers_done, prod, bench>>

\* metrics->increment_consumed(); local_consumed++
ConsumerCount(ci) ==
  /\ ci \in DOMAIN cons
  /\ cons[ci].pc = "count"
  /\ consumed' = consumed + 1
  /\ cons' = [cons EXCEPT ![ci].pc = "try",
                          ![ci].local_consumed = @ + 1]
  /\ UNCHANGED <<nopcvars, pcparams, queue, produced, producers_done, prod, bench>>

\* producers_done.load(), the left operand of &&; otherwise the thread sleeps
\* and tries again
ConsumerLoadDone(ci) ==
  /\ ci \in DOMAIN cons
  /\ cons[ci].pc = "load_done"
  /\ cons' = [cons EXCEPT ![ci].pc =
                IF producers_done THEN "empty" ELSE "try"]
  /\ UNCHANGED <<nopcvars, pcparams, queue, produced, consumed, producers_done,
                 prod, bench>>

\* a consumer that leaves its loop without looking at the queue
ConsumerLeave(ci) ==
  /\ ci \in DOMAIN cons
  /\ cons[ci].pc = "empty"
  /\ cons' = [cons EXCEPT ![ci].pc = "done"]
  /\ UNCHANGED <<nopcvars, pcparams, queue, produced, consumed, producers_done,
                 prod, bench>>

\* channel.empty() / queue.empty(), the right operand of &&: break
ConsumerEmpty(ci) ==
  /\ ci \in DOMAIN cons
  /\ cons[ci].pc = "empty"
  /\ cons' = [cons EXCEPT ![ci].pc = IF queue = <<>> THEN "done" ELSE "try"]
  /\ UNCHANGED <<nopcvars, pcparams, queue, produced, consumed, producers_done,
                 prod, bench>>

\* for (auto& t : producers) t.join(); producers_done.store(true)
JoinProducers ==
  /\ bench = "join_producers"
  /\ \A pi \in DOMAIN prod : prod[pi].pc = "done"
  /\ producers_done' = TRUE
  /\ bench' = "join_consumers"
  /\ UNCHANGED <<nopcvars, pcparams, queue, produced, consumed, prod, cons>>

\* for (auto& t : consumers) t.join(); metrics->print_results(...)
JoinConsumers ==
  /\ bench = "join_consumers"
  /\ \A ci \in DOMAIN cons : cons[ci].pc = "done"
  /\ bench' = "finished"
  /\ UNCHANGED <<nopcvars, pcparams, queue, produced, consumed, producers_done,
                 prod, cons>>

\* a benchmark called with at least one producer, one consumer and one item,
\* all threads created
InitPC ==
  /\ NpbIdle
  /\ impl = "port"
  /\ RngIdle
  /\ RepIdle
  /\ EchoIdle
  /\ CmpIdle
  /\ SizeIdle
  /\ pcmode \in {"channel", "queue"}
  /\ num_producers \in 1..MaxProducers
  /\ num_consumers \in 1..MaxConsumers
  /\ items_per_producer \in 1..MaxItems
  /\ queue = <<>>
  /\ produced = 0
  /\ consumed = 0
  /\ producers_done = FALSE
  /\ prod = [pi \in 1..num_producers |-> [pc |-> "send", j |-> 0]]
  /\ cons = [ci \in 1..num_consumers |->
               [pc |-> "try", local_consumed |-> 0, got |-> {}]]
  /\ bench = "join_producers"

NextPC ==
  \/ \E pi \in 1..MaxProducers : ProducerSend(pi)
  \/ \E pi \in 1..MaxProducers : ProducerCount(pi)
  \/ \E ci \in 1..MaxConsumers : ConsumerTry(ci)
  \/ \E ci \in 1..MaxConsumers : ConsumerCount(ci)
  \/ \E ci \in 1..MaxConsumers : ConsumerLoadDone(ci)
  \/ \E ci \in 1..MaxConsumers : ConsumerEmpty(ci)
  \/ JoinProducers
  \/ JoinConsumers

SpecPC == InitPC /\ [][NextPC]_vars

\* every thread that can take a step is scheduled
FairSpecPC ==
  /\ SpecPC
  /\ \A pi \in 1..MaxProducers :
       WF_vars(ProducerSend(pi)) /\ WF_vars(ProducerCount(pi))
  /\ \A ci \in 1..MaxConsumers :
       /\ WF_vars(ConsumerTry(ci)) /\ WF_vars(ConsumerCount(ci))
       /\ WF_vars(ConsumerLoadDone(ci)) /\ WF_vars(ConsumerEmpty(ci))
  /\ WF_vars(JoinProducers)
  /\ WF_vars(JoinConsumers)

\* every consumer has left its loop
ConsumersDone == \A ci \in DOMAIN cons : cons[ci].pc = "done"

\* the items the producers send
AllItems == (1..num_producers) \X (0..(items_per_producer - 1))

\* C29: every consumer eventually terminates; once all have terminated,
\* consumed = produced = num_producers * items_per_producer, the queue is
\* empty and every item was received by exactly one consumer.
C29_AllItemsConsumed ==
  /\ <>ConsumersDone
  /\ [](ConsumersDone =>
          /\ consumed = num_producers * items_per_producer
          /\ produced = num_producers * items_per_producer
          /\ queue = <<>>
          /\ UNION {cons[ci].got : ci \in DOMAIN cons} = AllItems
          /\ \A c1 \in DOMAIN cons, c2 \in DOMAIN cons :
               c1 # c2 => cons[c1].got \cap cons[c2].got = {})

\* the run is over and both consumers received items of both producers
C29_Witness ==
  /\ bench = "finished"
  /\ num_producers = 2 /\ num_consumers = 2 /\ items_per_producer = 2
  /\ \A ci \in DOMAIN cons :
       \A pi \in DOMAIN prod : \E itm \in cons[ci].got : itm[1] = pi

\* C30: the counter consumed never exceeds the counter produced.
C30_ConsumedAtMostProduced == consumed <= produced

====
